---- MODULE Spec2Model ----
(***************************************************************************)
(* Model of the incremental response pipeline of the Omnifact chat widget: *)
(* SSEHandler.processStream (frame parser and result accumulator), the     *)
(* MarkdownRenderer passes and MessageItem's citation processor.           *)
(*                                                                         *)
(* Text is modelled character by character: a string is a sequence of      *)
(* one-character strings, a byte stream is a sequence of bytes (an ASCII   *)
(* byte is written as its character, the two bytes of U+00E9 as xC3, xA9). *)
(* null / undefined / "no value" is the empty sequence, a present value v  *)
(* is <<v>>.                                                               *)
(***************************************************************************)
EXTENDS Naturals, Sequences, FiniteSets, TLC

\* ------------------------------------------------------------------------
\* JavaScript string primitives used by the code
\* ------------------------------------------------------------------------

LF == "\n"
CR == "\r"

\* String.prototype.trim's white space, restricted to the model's alphabet
IsWs(c) == c \in {" ", "\t", CR, LF}

RECURSIVE TrimStart(_)
TrimStart(s) ==
  IF s = <<>> THEN <<>>
  ELSE IF IsWs(Head(s)) THEN TrimStart(Tail(s)) ELSE s

RECURSIVE TrimEnd(_)
TrimEnd(s) ==
  IF s = <<>> THEN <<>>
  ELSE IF IsWs(s[Len(s)]) THEN TrimEnd(SubSeq(s, 1, Len(s) - 1)) ELSE s

\* s.trim()
Trim(s) == TrimEnd(TrimStart(s))

\* s.startsWith(p)
StartsWith(s, p) == Len(s) >= Len(p) /\ SubSeq(s, 1, Len(p)) = p

\* s.slice(n)
Slice(s, n) == SubSeq(s, n + 1, Len(s))

\* s.split(sep) for a one-character separator: always at least one element
Split(s, sep) ==
  LET at == SelectSeq([i \in 1..Len(s) |-> i], LAMBDA i : s[i] = sep)
      k == Len(at)
  IN [j \in 1..(k + 1) |->
        SubSeq(s, IF j = 1 THEN 1 ELSE at[j - 1] + 1,
                  IF j = k + 1 THEN Len(s) ELSE at[j] - 1)]

\* arr.join(sep)
RECURSIVE Join(_, _)
Join(arr, sep) ==
  IF arr = <<>> THEN <<>>
  ELSE IF Len(arr) = 1 THEN arr[1]
  ELSE arr[1] \o sep \o Join(Tail(arr), sep)

RECURSIVE Concat(_)
Concat(arr) == IF arr = <<>> THEN <<>> ELSE Head(arr) \o Concat(Tail(arr))

\* ------------------------------------------------------------------------
\* TextDecoder('utf-8').decode(value, {stream: true})
\* ------------------------------------------------------------------------

LeadByte == "xC3"
ContByte == "xA9"
EAcute == "U+00E9"
Replacement == "U+FFFD"

\* The UTF-8 decoder over the pending lead byte (at most one in this
\* alphabet) followed by the new bytes: a lead byte and its continuation
\* byte give U+00E9, a lead byte followed by anything else and a
\* continuation byte without its lead give U+FFFD, a lead byte at the end
\* stays pending for the next call.
NoChar == ""

Decode(pend, bytes) ==
  LET all == pend \o bytes
      n == Len(all)
      emit == [i \in 1..n |->
                IF all[i] = LeadByte
                THEN IF i = n \/ all[i + 1] = ContByte THEN NoChar ELSE Replacement
                ELSE IF all[i] = ContByte
                THEN IF i > 1 /\ all[i - 1] = LeadByte THEN EAcute ELSE Replacement
                ELSE all[i]]
  IN [text |-> SelectSeq(emit, LAMBDA c : c # NoChar),
      pending |-> IF n > 0 /\ all[n] = LeadByte THEN <<LeadByte>> ELSE <<>>]

\* ------------------------------------------------------------------------
\* JSON.parse, for the JSON subset the payloads use: objects, strings
\* without escapes, null, unsigned integers. Anything else is a SyntaxError.
\* A value is [t, v]: t in {"str","num","null","obj","undef"}; v the
\* characters of a string or number, the <<key, value>> members of an object.
\* ------------------------------------------------------------------------

Digits == {"0", "1", "2", "3", "4", "5", "6", "7", "8", "9"}
JsonWs == {" ", "\t", CR, LF}
Quote == "\""

Undefined == [t |-> "undef", v |-> <<>>]
JsonNull == [t |-> "null", v |-> <<>>]
JsonTrue == [t |-> "bool", v |-> <<"t", "r", "u", "e">>]
JsonFalse == [t |-> "bool", v |-> <<"f", "a", "l", "s", "e">>]
ParseFail == [ok |-> FALSE, val |-> Undefined, next |-> 0]

RECURSIVE SkipWs(_, _)
SkipWs(s, i) == IF i <= Len(s) /\ s[i] \in JsonWs THEN SkipWs(s, i + 1) ELSE i

\* index of the closing quote of a string whose opening quote is before i
\* (0: none, or a character a JSON string cannot hold comes first)
StrEnd(s, i) ==
  LET stops == {j \in i..Len(s) : s[j] \in {Quote, "\t", CR, LF, "\\"}} IN
    IF stops = {} THEN 0
    ELSE LET j == CHOOSE m \in stops : \A o \in stops : m <= o IN
      IF s[j] = Quote THEN j ELSE 0

ParseString(s, i) ==
  IF i > Len(s) \/ s[i] # Quote THEN ParseFail
  ELSE LET j == StrEnd(s, i + 1) IN
    IF j = 0 THEN ParseFail
    ELSE [ok |-> TRUE, val |-> [t |-> "str", v |-> SubSeq(s, i + 1, j - 1)], next |-> j + 1]

RECURSIVE NumEnd(_, _)
NumEnd(s, i) == IF i <= Len(s) /\ s[i] \in Digits THEN NumEnd(s, i + 1) ELSE i

ParseNumber(s, i) ==
  LET j == NumEnd(s, i) IN
    IF j = i \/ (s[i] = "0" /\ j > i + 1) THEN ParseFail
    ELSE [ok |-> TRUE, val |-> [t |-> "num", v |-> SubSeq(s, i, j - 1)], next |-> j]

RECURSIVE ParseValue(_, _)
RECURSIVE ParseMembers(_, _, _)

\* members of an object after "{" or ",": i is at the key
ParseMembers(s, i, acc) ==
  LET k == ParseString(s, SkipWs(s, i)) IN
    IF ~k.ok THEN ParseFail
    ELSE LET c == SkipWs(s, k.next) IN
      IF c > Len(s) \/ s[c] # ":" THEN ParseFail
      ELSE LET x == ParseValue(s, c + 1) IN
        IF ~x.ok THEN ParseFail
        ELSE LET e == SkipWs(s, x.next)
                 acc2 == Append(acc, <<k.val.v, x.val>>)
             IN IF e > Len(s) THEN ParseFail
                ELSE IF s[e] = "," THEN ParseMembers(s, e + 1, acc2)
                ELSE IF s[e] = "}"
                     THEN [ok |-> TRUE, val |-> [t |-> "obj", v |-> acc2], next |-> e + 1]
                ELSE ParseFail

ParseValue(s, i0) ==
  LET i == SkipWs(s, i0) IN
    IF i > Len(s) THEN ParseFail
    ELSE IF s[i] = "{"
      THEN LET j == SkipWs(s, i + 1) IN
        IF j <= Len(s) /\ s[j] = "}"
        THEN [ok |-> TRUE, val |-> [t |-> "obj", v |-> <<>>], next |-> j + 1]
        ELSE ParseMembers(s, i + 1, <<>>)
    ELSE IF s[i] = Quote THEN ParseString(s, i)
    ELSE IF s[i] \in Digits THEN ParseNumber(s, i)
    ELSE IF i + 3 <= Len(s) /\ SubSeq(s, i, i + 3) = <<"n", "u", "l", "l">>
      THEN [ok |-> TRUE, val |-> JsonNull, next |-> i + 4]
    ELSE IF i + 3 <= Len(s) /\ SubSeq(s, i, i + 3) = JsonTrue.v
      THEN [ok |-> TRUE, val |-> JsonTrue, next |-> i + 4]
    ELSE IF i + 4 <= Len(s) /\ SubSeq(s, i, i + 4) = JsonFalse.v
      THEN [ok |-> TRUE, val |-> JsonFalse, next |-> i + 5]
    ELSE ParseFail

\* JSON.parse(s): [ok, val]; ok = FALSE stands for the SyntaxError thrown
JSONParse(s) ==
  LET r == ParseValue(s, 1) IN
    IF r.ok /\ SkipWs(s, r.next) = Len(s) + 1
    THEN [ok |-> TRUE, val |-> r.val]
    ELSE [ok |-> FALSE, val |-> Undefined]

\* obj[key] for a parsed value (the last duplicate member wins)
RECURSIVE Lookup(_, _)
Lookup(members, key) ==
  IF members = <<>> THEN Undefined
  ELSE LET m == members[Len(members)] IN
    IF m[1] = key THEN m[2] ELSE Lookup(SubSeq(members, 1, Len(members) - 1), key)

Get(val, key) == IF val.t = "obj" THEN Lookup(val.v, key) ELSE Undefined

\* JavaScript truthiness and string conversion of a parsed value
Truthy(val) ==
  \/ val.t = "obj"
  \/ val.t = "str" /\ val.v # <<>>
  \/ val.t = "num" /\ val.v # <<"0">>
  \/ val = JsonTrue

ToStr(val) ==
  CASE val.t = "str" -> val.v
    [] val.t = "num" -> val.v
    [] val.t = "bool" -> val.v
    [] val.t = "null" -> <<"n", "u", "l", "l">>
    [] val.t = "undef" -> <<"u", "n", "d", "e", "f", "i", "n", "e", "d">>
    [] OTHER -> <<"[", "o", "b", "j", "e", "c", "t", " ", "O", "b", "j", "e", "c", "t", "]">>

\* ------------------------------------------------------------------------
\* SSEHandler.processStream: the per-line step, the chunk step, the end
\* ------------------------------------------------------------------------

EventPrefix == <<"e", "v", "e", "n", "t", ":", " ">>
IdPrefix == <<"i", "d", ":", " ">>
DataPrefix == <<"d", "a", "t", "a", ":", " ">>
AssistantWriteEvent == <<"a", "s", "s", "i", "s", "t", "a", "n", "t", "_", "w", "r", "i", "t", "e">>
ReferencesEvent == <<"r", "e", "f", "e", "r", "e", "n", "c", "e", "s">>
MessageSourceEvent == <<"m", "e", "s", "s", "a", "g", "e", "_", "s", "o", "u", "r", "c", "e">>
DoneEvent == <<"d", "o", "n", "e">>
ErrorEvent == <<"e", "r", "r", "o", "r">>
StreamErrorText == <<"S", "t", "r", "e", "a", "m", " ", "e", "r", "r", "o", "r">>
\* the engine's message of the SyntaxError JSON.parse throws / of the
\* TypeError a property read of null throws: never the payload itself
SyntaxErrorText == <<"U", "n", "e", "x", "p", "e", "c", "t", "e", "d", " ", "t", "o", "k", "e", "n">>
TypeErrorText == <<"C", "a", "n", "n", "o", "t", " ", "r", "e", "a", "d", " ", "p", "r", "o", "p", "e", "r", "t", "i", "e", "s", " ", "o", "f", " ", "n", "u", "l", "l">>

AllCallbacks == {"onChunk", "onReferences", "onSource", "onComplete", "onError"}

NoResult == <<>>
NoError == <<>>

\* new Error(message), and the other Error instances the code can throw
ErrorOf(name, message) == [isError |-> TRUE, name |-> name, message |-> message]

\* mutant of StreamResultOf: the source list is passed on also when empty
StreamResultKeepsEmptySources(a) ==
  [content |-> a.accumulatedContent,
   messageId |-> a.messageId,
   references |-> a.references,
   sources |-> <<a.sources>>]

\* the StreamResult literal of lines 126-131 and 155-160
StreamResultOf(a) ==
  [content |-> a.accumulatedContent,
   messageId |-> a.messageId,
   references |-> a.references,
   sources |-> IF Len(a.sources) > 0 THEN <<a.sources>> ELSE <<>>]

\* one callback invocation as it is recorded; line is the number of the
\* stream line that caused it (0: none)
Call(cb, delta, acc, mid, data, res, err, line) ==
  [cb |-> cb, delta |-> delta, acc |-> acc, mid |-> mid, data |-> data,
   res |-> res, err |-> err, line |-> line]

\* if (onX) onX(...)
Invoke(a, cbs, call) ==
  IF call.cb \in cbs THEN [a EXCEPT !.trace = Append(@, call)] ELSE a

\* the catch block of lines 166-171: onError when supplied and the thrown
\* value is an Error instance, then rethrow
Catch(a, cbs, e) ==
  LET b == IF e.isError
            THEN Invoke(a, cbs, Call("onError", <<>>, <<>>, <<>>, Undefined, NoResult, <<e>>, a.lineNo))
            ELSE a
  IN [b EXCEPT !.pc = "thrown", !.error = <<e>>]

\* lines 126-136 and 155-165: build the result, onComplete, return
Complete(a, cbs) ==
  LET r == StreamResultOf(a)
      b == Invoke(a, cbs, Call("onComplete", <<>>, <<>>, <<>>, Undefined, <<r>>, NoError, a.lineNo))
  IN [b EXCEPT !.pc = "returned", !.result = <<r>>]

\* lines 95-98: the payload taken as raw content
RawWrite(a, cbs, dataStr) ==
  LET acc == a.accumulatedContent \o dataStr IN
    Invoke([a EXCEPT !.accumulatedContent = acc], cbs,
           Call("onChunk", dataStr, acc, a.messageId, Undefined, NoResult, NoError, a.lineNo))

\* mutant of OnAssistantWrite: onChunk is handed the delta in place of the
\* accumulated content
OnAssistantWriteDeltaAsAccumulated(a, cbs, dataStr) ==
  LET p == JSONParse(dataStr) IN
    IF ~p.ok \/ p.val.t = "null" THEN RawWrite(a, cbs, dataStr)
    ELSE LET content == Get(p.val, "content")
             mid == Get(p.val, "messageId")
         IN IF ~Truthy(content) THEN a
            ELSE LET newId == IF Truthy(mid) THEN <<ToStr(mid)>> ELSE a.messageId
                     acc == a.accumulatedContent \o ToStr(content)
                 IN Invoke([a EXCEPT !.messageId = newId, !.accumulatedContent = acc], cbs,
                           Call("onChunk", ToStr(content), ToStr(content), newId, Undefined, NoResult, NoError, a.lineNo))

\* lines 80-99
OnAssistantWrite(a, cbs, dataStr) ==
  LET p == JSONParse(dataStr) IN
    IF ~p.ok \/ p.val.t = "null" THEN RawWrite(a, cbs, dataStr)
    ELSE LET content == Get(p.val, "content")
             mid == Get(p.val, "messageId")
         IN IF ~Truthy(content) THEN a
            ELSE LET newId == IF Truthy(mid) THEN <<ToStr(mid)>> ELSE a.messageId
                     acc == a.accumulatedContent \o ToStr(content)
                 IN Invoke([a EXCEPT !.messageId = newId, !.accumulatedContent = acc], cbs,
                           Call("onChunk", ToStr(content), acc, newId, Undefined, NoResult, NoError, a.lineNo))

\* lines 100-111
OnReferences(a, cbs, dataStr) ==
  LET p == JSONParse(dataStr) IN
    IF ~p.ok THEN a
    ELSE Invoke([a EXCEPT !.references = <<p.val>>], cbs,
                Call("onReferences", <<>>, <<>>, <<>>, p.val, NoResult, NoError, a.lineNo))

\* mutant of OnMessageSource: a payload that does not parse is kept as a
\* source, as text
OnMessageSourceKeepsRaw(a, cbs, dataStr) ==
  LET p == JSONParse(dataStr)
      data == IF p.ok THEN p.val ELSE [t |-> "str", v |-> dataStr]
  IN Invoke([a EXCEPT !.sources = Append(@, data)], cbs,
            Call("onSource", <<>>, <<>>, <<>>, data, NoResult, NoError, a.lineNo))

\* lines 112-123
OnMessageSource(a, cbs, dataStr) ==
  LET p == JSONParse(dataStr) IN
    IF ~p.ok THEN a
    ELSE Invoke([a EXCEPT !.sources = Append(@, p.val)], cbs,
                Call("onSource", <<>>, <<>>, <<>>, p.val, NoResult, NoError, a.lineNo))

\* lines 139-145: the error the error branch ends up throwing
StreamErrorOf(dataStr) ==
  LET p == JSONParse(dataStr) IN
    IF ~p.ok THEN ErrorOf("SyntaxError", SyntaxErrorText)
    ELSE IF p.val.t = "null" THEN ErrorOf("TypeError", TypeErrorText)
    ELSE LET m == Get(p.val, "message")
             first == IF Truthy(m) THEN ToStr(m) ELSE StreamErrorText
         IN IF first # StreamErrorText THEN ErrorOf("Error", first)
            ELSE ErrorOf("Error", IF dataStr # <<>> THEN dataStr ELSE StreamErrorText)

\* lines 77-150: a data line, by the current event name
OnData(a, cbs, dataStr) ==
  IF a.currentEvent = <<AssistantWriteEvent>> THEN OnAssistantWrite(a, cbs, dataStr)
  ELSE IF a.currentEvent = <<ReferencesEvent>> THEN OnReferences(a, cbs, dataStr)
  ELSE IF a.currentEvent = <<MessageSourceEvent>> THEN OnMessageSource(a, cbs, dataStr)
  ELSE IF a.currentEvent = <<DoneEvent>> THEN Complete(a, cbs)
  ELSE IF a.currentEvent = <<ErrorEvent>> THEN Catch(a, cbs, StreamErrorOf(dataStr))
  ELSE a

\* line 78
PayloadOf(trimmedLine) == Slice(trimmedLine, 6)

\* mutant of ProcessLine: a blank line ends the frame and with it the event
\* name
ProcessLineBlankResets(a0, cbs, line, no) ==
  LET a == [a0 EXCEPT !.lineNo = no]
      trimmedLine == Trim(line)
  IN IF trimmedLine = <<>> THEN [a EXCEPT !.currentEvent = <<>>]
     ELSE IF StartsWith(trimmedLine, EventPrefix)
       THEN [a EXCEPT !.currentEvent = <<Trim(Slice(trimmedLine, 7))>>]
     ELSE IF StartsWith(trimmedLine, IdPrefix) THEN a
     ELSE IF StartsWith(trimmedLine, DataPrefix) THEN OnData(a, cbs, PayloadOf(trimmedLine))
     ELSE a

\* lines 58-150: the body of the for loop for one line; no is the line's
\* number in the stream, counted from 1
ProcessLine(a0, cbs, line, no) ==
  LET a == [a0 EXCEPT !.lineNo = no]
      trimmedLine == Trim(line)
  IN IF trimmedLine = <<>> THEN a
     ELSE IF StartsWith(trimmedLine, EventPrefix)
       THEN [a EXCEPT !.currentEvent = <<Trim(Slice(trimmedLine, 7))>>]
     ELSE IF StartsWith(trimmedLine, IdPrefix) THEN a
     ELSE IF StartsWith(trimmedLine, DataPrefix) THEN OnData(a, cbs, PayloadOf(trimmedLine))
     ELSE a

\* mutant of ProcessLines: the done branch does not return, the loop goes on
RECURSIVE ProcessLinesNoReturn(_, _, _, _)
ProcessLinesNoReturn(a, cbs, lines, no) ==
  IF lines = <<>> \/ a.pc = "thrown" THEN a
  ELSE ProcessLinesNoReturn(ProcessLine(a, cbs, Head(lines), no), cbs, Tail(lines), no + 1)

\* mutant of ProcessLines: the lines of a chunk are taken last to first
RECURSIVE ProcessLinesReversed(_, _, _, _)
ProcessLinesReversed(a, cbs, lines, no) ==
  IF lines = <<>> \/ a.pc # "reading" THEN a
  ELSE ProcessLinesReversed(ProcessLine(a, cbs, lines[Len(lines)], no + Len(lines) - 1),
                            cbs, SubSeq(lines, 1, Len(lines) - 1), no)

\* lines 58-151: the for loop; a return or a throw inside it ends it
RECURSIVE ProcessLines(_, _, _, _)
ProcessLines(a, cbs, lines, no) ==
  IF lines = <<>> \/ a.pc # "reading" THEN a
  ELSE ProcessLines(ProcessLine(a, cbs, Head(lines), no), cbs, Tail(lines), no + 1)

\* mutant of PopLast: the incomplete last line is dropped
PopLastDropsPartial(lines) == <<>>

\* line 56: buffer = lines.pop() || ''
PopLast(lines) == lines[Len(lines)]

\* lines 54-151: one chunk that reader.read() delivered
ProcessChunk(a, cbs, value) ==
  LET d == Decode(a.decoder, value)
      lines == Split(a.buffer \o d.text, LF)
      b == [a EXCEPT !.decoder = d.pending, !.buffer = PopLast(lines)]
  IN ProcessLines(b, cbs, SubSeq(lines, 1, Len(lines) - 1), a.lineNo + 1)

\* lines 36-44: the locals at the start of the call
InitialAcc ==
  [decoder |-> <<>>, buffer |-> <<>>, currentEvent |-> <<>>,
   accumulatedContent |-> <<>>, messageId |-> <<>>, references |-> <<>>,
   sources |-> <<>>, trace |-> <<>>, lineNo |-> 0, pc |-> "reading",
   result |-> NoResult, error |-> NoError]

\* ------------------------------------------------------------------------
\* The byte streams a server can send: frames of the wire format, one after
\* the other
\* ------------------------------------------------------------------------

FrameWriteA ==
  <<"e", "v", "e", "n", "t", ":", " ", "a", "s", "s", "i", "s", "t", "a", "n", "t", "_", "w", "r", "i", "t", "e", LF, "d", "a", "t", "a", ":", " ", "{", Quote, "c", "o", "n", "t", "e", "n", "t", Quote, ":", Quote, "a", Quote, "}", LF, LF>>

FrameWriteIdB ==
  <<"e", "v", "e", "n", "t", ":", " ", "a", "s", "s", "i", "s", "t", "a", "n", "t", "_", "w", "r", "i", "t", "e", LF, "d", "a", "t", "a", ":", " ", "{", Quote, "m", "e", "s", "s", "a", "g", "e", "I", "d", Quote, ":", Quote, "m", Quote, ",", Quote, "c", "o", "n", "t", "e", "n", "t", Quote, ":", Quote, "b", Quote, "}", LF, LF>>

FrameWriteRaw ==
  <<"e", "v", "e", "n", "t", ":", " ", "a", "s", "s", "i", "s", "t", "a", "n", "t", "_", "w", "r", "i", "t", "e", LF, "d", "a", "t", "a", ":", " ", "h", LeadByte, ContByte, " ", LF, LF>>

FrameDataOnly ==
  <<"d", "a", "t", "a", ":", " ", "c", LF, LF>>

FrameSource ==
  <<"e", "v", "e", "n", "t", ":", " ", "m", "e", "s", "s", "a", "g", "e", "_", "s", "o", "u", "r", "c", "e", LF, "d", "a", "t", "a", ":", " ", "{", Quote, "s", "o", "u", "r", "c", "e", "I", "d", Quote, ":", Quote, "s", Quote, "}", LF, LF>>

FrameReferences ==
  <<"e", "v", "e", "n", "t", ":", " ", "r", "e", "f", "e", "r", "e", "n", "c", "e", "s", LF, "d", "a", "t", "a", ":", " ", "{", Quote, "m", "e", "s", "s", "a", "g", "e", "I", "d", Quote, ":", Quote, "r", Quote, "}", LF, LF>>

FrameBadSource ==
  <<"e", "v", "e", "n", "t", ":", " ", "m", "e", "s", "s", "a", "g", "e", "_", "s", "o", "u", "r", "c", "e", LF, "d", "a", "t", "a", ":", " ", "x", LF, LF>>

FrameDone ==
  <<"e", "v", "e", "n", "t", ":", " ", "d", "o", "n", "e", LF, "d", "a", "t", "a", ":", " ", "{", "}", LF, LF>>

FrameErrorBoom ==
  <<"e", "v", "e", "n", "t", ":", " ", "e", "r", "r", "o", "r", LF, "d", "a", "t", "a", ":", " ", "{", Quote, "m", "e", "s", "s", "a", "g", "e", Quote, ":", Quote, "b", "o", "o", "m", Quote, "}", LF, LF>>

FrameErrorRaw ==
  <<"e", "v", "e", "n", "t", ":", " ", "e", "r", "r", "o", "r", LF, "d", "a", "t", "a", ":", " ", "o", "o", "p", "s", LF, LF>>

FrameErrorSame ==
  <<"e", "v", "e", "n", "t", ":", " ", "e", "r", "r", "o", "r", LF, "d", "a", "t", "a", ":", " ", "{", Quote, "m", "e", "s", "s", "a", "g", "e", Quote, ":", Quote, "S", "t", "r", "e", "a", "m", " ", "e", "r", "r", "o", "r", Quote, "}", LF, LF>>

FrameUnknown ==
  <<"e", "v", "e", "n", "t", ":", " ", "p", "i", "n", "g", LF, "i", "d", ":", " ", "1", LF, "d", "a", "t", "a", ":", " ", "{", "}", LF, LF>>

FrameTail ==
  <<"d", "a", "t", "a", ":", " ", "z">>

\* the frames the streams of Spec are made of
Frames ==
  {FrameWriteA, FrameWriteIdB, FrameWriteRaw, FrameSource, FrameDone,
   FrameErrorBoom, FrameErrorRaw, FrameTail}

MaxFrames == 2
MaxChunk == 3

\* the sequences of at most MaxFrames frames of fr
FrameSeqs(fr) == UNION {[1..k -> fr] : k \in 0..MaxFrames}

CallbackSets == {AllCallbacks, {"onChunk"}}

\* what a failing read can be rejected with: an Error instance, or any
\* other value (a stream errored or aborted with a non-Error reason)
ReadFailures ==
  {ErrorOf("TypeError", <<"n", "e", "t">>),
   [isError |-> FALSE, name |-> "string", message |-> <<"g", "o", "n", "e">>]}

VARIABLES
  frames,             \* the frames the server sends, fixed per call
  stream,             \* the bytes of response.body: the frames on the wire
  cbs,                \* the callbacks supplied in `callbacks`
  pos,                \* how many bytes the reader has delivered
  decoder,            \* the TextDecoder's pending bytes
  buffer, currentEvent, accumulatedContent, messageId, references, sources,
  trace,              \* the callback invocations so far, in order
  lineNo,             \* how many complete lines the loop has looked at
  pc,                 \* "reading" | "returned" | "thrown"
  result,             \* the value the call resolved with
  error,              \* the value the call rejected with
  itemContent,        \* MessageItem._content
  itemSources,        \* MessageItem._sources (<<>>: null)
  contentHtml,        \* innerHTML of the element's .content node
  pieces,             \* the strings the content was put together from
  stale,              \* _sources was assigned after .content was last written
  attributes,         \* the widget element's HTML attributes present: name -> value
  script,             \* textContent of the element's JSON script tag (<<>>: no tag)
  config,             \* ConfigManager.config
  warnings,           \* what _validate last passed to console.warn
  loaded,             \* load() has returned
  mdText,             \* the text handed to the markdown renderer
  mdHtml,             \* what the renderer returned for it
  mdPass,             \* which of its methods was applied ("none": not yet)
  debug,              \* SSEHandler.debug of a handler that runs two calls
  running,            \* those two calls: each one's response, callbacks and locals
  msg,                \* the ChatMessage handed to _renderMessage (<<>>: none)
  stage,              \* how far _renderMessage got: "none", "created", "populated"
  widget              \* the OmnifactChatWidget: its _state, config flags, input, indicator, storage and the send in flight (<<>>: none)

vars == <<frames, stream, cbs, pos, decoder, buffer, currentEvent, accumulatedContent,
          messageId, references, sources, trace, lineNo, pc, result, error,
          itemContent, itemSources, contentHtml, pieces, stale,
          attributes, script, config, warnings, loaded,
          mdText, mdHtml, mdPass, debug, running,
          msg, stage,
          widget>>

\* the state of the stream call, and that of one message element
streamVars == <<frames, stream, cbs, pos, decoder, buffer, currentEvent, accumulatedContent,
                messageId, references, sources, trace, lineNo, pc, result, error>>
itemVars == <<itemContent, itemSources, contentHtml, pieces, stale>>
configVars == <<attributes, script, config, warnings, loaded>>

renderVars == <<mdText, mdHtml, mdPass>>
pairVars == <<debug, running>>

\* no renderer call in play
NoRender ==
  /\ mdText = <<>>
  /\ mdHtml = <<>>
  /\ mdPass = "none"

populateVars == <<msg, stage>>

NoMessage ==
  /\ msg = <<>>
  /\ stage = "none"

widgetVars == <<widget>>

NoWidget ==
  /\ widget = <<>>

\* no handler with two calls in play
NoPair ==
  /\ debug = FALSE
  /\ running = <<>>

\* no processStream call in play
NoStream ==
  /\ frames = <<>>
  /\ stream = <<>>
  /\ cbs = AllCallbacks
  /\ pos = 0
  /\ decoder = InitialAcc.decoder
  /\ buffer = InitialAcc.buffer
  /\ currentEvent = InitialAcc.currentEvent
  /\ accumulatedContent = InitialAcc.accumulatedContent
  /\ messageId = InitialAcc.messageId
  /\ references = InitialAcc.references
  /\ sources = InitialAcc.sources
  /\ trace = InitialAcc.trace
  /\ lineNo = InitialAcc.lineNo
  /\ pc = InitialAcc.pc
  /\ result = InitialAcc.result
  /\ error = InitialAcc.error

\* no configuration manager in play
NoConfig ==
  /\ attributes = <<>>
  /\ script = <<>>
  /\ config = <<>>
  /\ warnings = <<>>
  /\ loaded = FALSE

\* a connected message element as its constructor and first render() leave it
NewItem ==
  /\ itemContent = <<>>
  /\ itemSources = <<>>
  /\ contentHtml = <<>>
  /\ pieces = <<>>
  /\ stale = FALSE

\* the locals of the call as one record
Acc ==
  [decoder |-> decoder, buffer |-> buffer, currentEvent |-> currentEvent,
   accumulatedContent |-> accumulatedContent, messageId |-> messageId,
   references |-> references, sources |-> sources, trace |-> trace,
   lineNo |-> lineNo, pc |-> pc, result |-> result, error |-> error]

SetAcc(a) ==
  /\ decoder' = a.decoder
  /\ buffer' = a.buffer
  /\ currentEvent' = a.currentEvent
  /\ accumulatedContent' = a.accumulatedContent
  /\ messageId' = a.messageId
  /\ references' = a.references
  /\ sources' = a.sources
  /\ trace' = a.trace
  /\ lineNo' = a.lineNo
  /\ pc' = a.pc
  /\ result' = a.result
  /\ error' = a.error

InitWith(fr) ==
  /\ frames \in FrameSeqs(fr)
  /\ stream = Concat(frames)
  /\ cbs \in CallbackSets
  /\ pos = 0
  /\ decoder = InitialAcc.decoder
  /\ buffer = InitialAcc.buffer
  /\ currentEvent = InitialAcc.currentEvent
  /\ accumulatedContent = InitialAcc.accumulatedContent
  /\ messageId = InitialAcc.messageId
  /\ references = InitialAcc.references
  /\ sources = InitialAcc.sources
  /\ trace = InitialAcc.trace
  /\ lineNo = InitialAcc.lineNo
  /\ pc = InitialAcc.pc
  /\ result = InitialAcc.result
  /\ error = InitialAcc.error
  /\ NewItem
  /\ NoConfig
  /\ NoRender
  /\ NoPair
  /\ NoMessage
  /\ NoWidget

Init == InitWith(Frames)

\* the chunk sizes the transport may deliver: a few bytes, or all the rest
ChunkSizes(rest) == {n \in 1..MaxChunk : n <= rest} \cup {rest}

\* lines 48-151: reader.read() resolves with a chunk, the loop body runs
ReadChunk ==
  /\ pc = "reading"
  /\ pos < Len(stream)
  /\ \E n \in ChunkSizes(Len(stream) - pos) :
       /\ pos' = pos + n
       /\ SetAcc(ProcessChunk(Acc, cbs, SubSeq(stream, pos + 1, pos + n)))
  /\ UNCHANGED <<frames, stream, cbs>>
  /\ UNCHANGED itemVars
  /\ UNCHANGED configVars
  /\ UNCHANGED renderVars
  /\ UNCHANGED pairVars
  /\ UNCHANGED populateVars
  /\ UNCHANGED widgetVars

\* lines 48-52 and 154-165: reader.read() resolves with done
ReadDone ==
  /\ pc = "reading"
  /\ pos = Len(stream)
  /\ SetAcc(Complete(Acc, cbs))
  /\ UNCHANGED <<frames, stream, cbs, pos>>
  /\ UNCHANGED itemVars
  /\ UNCHANGED configVars
  /\ UNCHANGED renderVars
  /\ UNCHANGED pairVars
  /\ UNCHANGED populateVars
  /\ UNCHANGED widgetVars

\* lines 48 and 166-171: reader.read() rejects
ReadFails ==
  /\ pc = "reading"
  /\ \E e \in ReadFailures : SetAcc(Catch(Acc, cbs, e))
  /\ UNCHANGED <<frames, stream, cbs, pos>>
  /\ UNCHANGED itemVars
  /\ UNCHANGED configVars
  /\ UNCHANGED renderVars
  /\ UNCHANGED pairVars
  /\ UNCHANGED populateVars
  /\ UNCHANGED widgetVars

Next == ReadChunk \/ ReadDone \/ ReadFails

Spec == Init /\ [][Next]_vars

\* ------------------------------------------------------------------------
\* What the stream says, read off its text without the handler
\* ------------------------------------------------------------------------

\* the lines of the whole stream (the last one has no line end)
StreamLines == Split(Decode(<<>>, stream).text, LF)

\* how many line ends the reader has delivered
CompleteLines == Cardinality({i \in 1..pos : stream[i] = LF})

IsEventLine(ls, n) == StartsWith(Trim(ls[n]), EventPrefix)
IsDataLine(ls, n) == StartsWith(Trim(ls[n]), DataPrefix)

\* the event name in force at line n: that of the nearest event line before it
EventNameAt(ls, n) ==
  LET evs == {j \in 1..(n - 1) : IsEventLine(ls, j)} IN
    IF evs = {} THEN <<>>
    ELSE LET j == CHOOSE m \in evs : \A o \in evs : o <= m IN
      <<Trim(Slice(Trim(ls[j]), 7))>>

\* line n is the data line of an event named name
IsDataLineOf(ls, n, name) == IsDataLine(ls, n) /\ EventNameAt(ls, n) = <<name>>

\* line n is the first data line of a done or error event
IsTerminalLine(ls, n) == IsDataLineOf(ls, n, DoneEvent) \/ IsDataLineOf(ls, n, ErrorEvent)
IsFirstTerminalLine(ls, n) ==
  IsTerminalLine(ls, n) /\ \A m \in 1..(n - 1) : ~IsTerminalLine(ls, m)

\* the call ended because a read failed
ReadFailed == error # NoError /\ error[1] \in ReadFailures

Calls(cb) == SelectSeq(trace, LAMBDA e : e.cb = cb)
EventCallbacks == {"onChunk", "onReferences", "onSource"}

RECURSIVE ConcatDeltas(_)
ConcatDeltas(calls) ==
  IF calls = <<>> THEN <<>> ELSE Head(calls).delta \o ConcatDeltas(Tail(calls))

\* the whole of bytes handed over as one chunk, then (ended) the end of the
\* source
Expected(bytes, cs, ended) ==
  LET a == ProcessChunk(InitialAcc, cs, bytes) IN
    IF ended /\ a.pc = "reading" THEN Complete(a, cs) ELSE a

\* ------------------------------------------------------------------------
\* C1
\* ------------------------------------------------------------------------

\* C1: however the bytes delivered so far were cut into chunks, the
\* callbacks invoked, the accumulator and the outcome are those of handing
\* the same bytes over as one single chunk (a failing read apart, which is
\* no part of the byte sequence).
ChunkingIndependent ==
  ~ReadFailed => Acc = Expected(SubSeq(stream, 1, pos), cbs, pc # "reading")

\* a chunk ended inside a two-byte character, inside a line, after a callback
ChunkingWitness ==
  /\ pc = "reading"
  /\ decoder = <<LeadByte>>
  /\ buffer # <<>>
  /\ trace # <<>>

\* ------------------------------------------------------------------------
\* C2
\* ------------------------------------------------------------------------

\* C2: a call given both onComplete and onError that has ended has invoked
\* exactly one of them, exactly once.
ExactlyOneTerminalCallback ==
  (pc # "reading" /\ {"onComplete", "onError"} \subseteq cbs)
    => Len(Calls("onComplete")) + Len(Calls("onError")) = 1

\* ------------------------------------------------------------------------
\* C3
\* ------------------------------------------------------------------------

\* every assistant_write payload of the stream is a JSON object with
\* non-empty content, and every line is complete
JsonWriteFrames ==
  \A i \in DOMAIN frames : frames[i] \notin {FrameWriteRaw, FrameTail}

IsEndFrame(f) == f \in {FrameDone, FrameErrorBoom, FrameErrorRaw}
IsWriteFrame(f) == f \in {FrameWriteA, FrameWriteIdB}

\* the frames up to the first done or error frame
FramesBeforeEnd ==
  LET ends == {i \in DOMAIN frames : IsEndFrame(frames[i])} IN
    IF ends = {} THEN frames
    ELSE SubSeq(frames, 1, (CHOOSE m \in ends : \A o \in ends : m <= o) - 1)

\* c1..cn, and the messageId each write carries
WritesSent == SelectSeq(FramesBeforeEnd, IsWriteFrame)
ContentSent(f) == IF f = FrameWriteA THEN <<"a">> ELSE <<"b">>
IdSent(f) == IF f = FrameWriteIdB THEN <<<<"m">>>> ELSE <<>>

RECURSIVE ContentUpTo(_, _)
ContentUpTo(ws, i) == IF i = 0 THEN <<>> ELSE ContentUpTo(ws, i - 1) \o ContentSent(ws[i])

RECURSIVE IdUpTo(_, _)
IdUpTo(ws, i) ==
  IF i = 0 THEN <<>>
  ELSE IF IdSent(ws[i]) # <<>> THEN IdSent(ws[i]) ELSE IdUpTo(ws, i - 1)

\* C3: for a stream whose assistant_write payloads are JSON objects with
\* contents c1..cn, the i-th onChunk call receives (ci, c1+...+ci, the
\* messageId current then); a result has content c1+...+cn, and is
\* {content, null, null, null} when no messageId, references or source came.
WriteCallbacks ==
  JsonWriteFrames =>
    LET ch == Calls("onChunk")
        ws == WritesSent
    IN /\ Len(ch) <= Len(ws)
       /\ \A i \in DOMAIN ch :
            /\ ch[i].delta = ContentSent(ws[i])
            /\ ch[i].acc = ContentUpTo(ws, i)
            /\ ch[i].mid = IdUpTo(ws, i)
       /\ pc = "returned" =>
            /\ Len(ch) = Len(ws)
            /\ result[1].content = ContentUpTo(ws, Len(ws))
            /\ (IdUpTo(ws, Len(ws)) = <<>> /\ \A i \in DOMAIN FramesBeforeEnd : FramesBeforeEnd[i] # FrameSource)
                 => result[1] = [content |-> ContentUpTo(ws, Len(ws)), messageId |-> <<>>,
                                 references |-> <<>>, sources |-> <<>>]

\* two JSON deltas, the second with a messageId, and a result
WriteCallbacksWitness ==
  /\ JsonWriteFrames
  /\ pc = "returned"
  /\ Len(Calls("onChunk")) = 2
  /\ result[1].content = <<"a", "b">>
  /\ result[1].messageId = <<<<"m">>>>

\* ------------------------------------------------------------------------
\* C4
\* ------------------------------------------------------------------------

\* C4: a call that an error event ended has failed with the payload's
\* message field when the payload parses as JSON and with the raw payload
\* when it does not; onError was invoked (when supplied), onComplete never.
ErrorMessageFromPayload ==
  (pc = "thrown" /\ ~ReadFailed) =>
    LET payload == PayloadOf(Trim(StreamLines[lineNo]))
        p == JSONParse(payload)
    IN /\ error[1].message = IF p.ok THEN ToStr(Get(p.val, "message")) ELSE payload
       /\ "onError" \in cbs => Calls("onError") = <<trace[Len(trace)]>> /\ trace[Len(trace)].err = error
       /\ Calls("onComplete") = <<>>

\* ------------------------------------------------------------------------
\* C5
\* ------------------------------------------------------------------------

\* C5: the step in which the source ends while the call is still reading
\* returns a StreamResult made of what was accumulated (its content the
\* concatenation of the deltas handed to onChunk), invokes onComplete with
\* it once, and invokes no onError.
StreamEndCompletes ==
  [][(pc = "reading" /\ pc' = "returned" /\ pos' = pos) =>
       /\ result' = <<[content |-> ConcatDeltas(Calls("onChunk")),
                       messageId |-> messageId,
                       references |-> references,
                       sources |-> IF sources = <<>> THEN <<>> ELSE <<sources>>]>>
       /\ error' = NoError
       /\ trace' = IF "onComplete" \in cbs
                   THEN Append(trace, Call("onComplete", <<>>, <<>>, <<>>, Undefined, result', NoError, lineNo))
                   ELSE trace
       /\ \A i \in DOMAIN trace' : trace'[i].cb # "onError"]_vars

\* the source ended after two deltas, no done event having come
StreamEndWitness ==
  /\ pc = "returned"
  /\ pos = Len(stream)
  /\ \A n \in 1..CompleteLines : ~IsTerminalLine(StreamLines, n)
  /\ Len(Calls("onChunk")) = 2
  /\ Len(Calls("onComplete")) = 1
  /\ result[1].content = ConcatDeltas(Calls("onChunk"))

\* ------------------------------------------------------------------------
\* C6
\* ------------------------------------------------------------------------

\* the entries of tr, mapped to their data
RECURSIVE DataOf(_)
DataOf(calls) == IF calls = <<>> THEN <<>> ELSE <<Head(calls).data>> \o DataOf(Tail(calls))

\* C6: once the data line of a done event (no error event before it) has
\* been delivered, the call has returned at that line: no callback is for a
\* later line, onComplete is the last callback and carries the result, and
\* the result holds what the callbacks before it delivered, whatever else
\* the same chunk or the rest of the stream holds.
DoneStopsProcessing ==
  LET ls == StreamLines IN
    \A n \in 1..CompleteLines :
      (IsFirstTerminalLine(ls, n) /\ IsDataLineOf(ls, n, DoneEvent)) =>
        /\ pc = "returned"
        /\ lineNo = n
        /\ \A i \in DOMAIN trace : trace[i].line <= n
        /\ "onComplete" \in cbs =>
             /\ Calls("onComplete") = <<trace[Len(trace)]>>
             /\ trace[Len(trace)].res = result
        /\ result[1].content = ConcatDeltas(Calls("onChunk"))
        /\ "onSource" \in cbs =>
             result[1].sources = IF Calls("onSource") = <<>> THEN <<>>
                                 ELSE <<DataOf(Calls("onSource"))>>

\* a done event was processed in a chunk that also held a later
\* assistant_write data line
DoneStopsWitness ==
  LET ls == StreamLines IN
    /\ pc = "returned"
    /\ lineNo >= 1
    /\ IsDataLineOf(ls, lineNo, DoneEvent)
    /\ \E m \in (lineNo + 1)..CompleteLines : IsDataLineOf(ls, m, AssistantWriteEvent)
    /\ Len(Calls("onComplete")) = 1

\* ------------------------------------------------------------------------
\* C7
\* ------------------------------------------------------------------------

\* C7: the delta of an assistant_write data line whose payload is not valid
\* JSON is the payload character for character: everything after the
\* `data: ` prefix up to the line end.
RawDeltaVerbatim ==
  \A i \in DOMAIN trace :
    LET line == StreamLines[trace[i].line] IN
      (trace[i].cb = "onChunk" /\ StartsWith(line, DataPrefix) /\ ~JSONParse(Slice(line, 6)).ok)
        => trace[i].delta = Slice(line, 6)

\* ------------------------------------------------------------------------
\* C8
\* ------------------------------------------------------------------------

\* line n makes the handler invoke callback cb
Fires(ls, n, cb) ==
  LET p == JSONParse(PayloadOf(Trim(ls[n]))) IN
    \/ /\ cb = "onChunk"
       /\ IsDataLineOf(ls, n, AssistantWriteEvent)
       /\ (~p.ok \/ p.val.t = "null" \/ Truthy(Get(p.val, "content")))
    \/ /\ cb = "onSource"
       /\ IsDataLineOf(ls, n, MessageSourceEvent)
       /\ p.ok

\* C8: the callbacks are in the order of the lines that cause them, each
\* for a data line already delivered; and when the next read is started
\* every delivered line has been dealt with and its callback has returned.
InArrivalOrder ==
  LET ls == StreamLines IN
    /\ \A i, j \in DOMAIN trace :
         i < j => /\ trace[i].line <= trace[j].line
                  /\ ({trace[i].cb, trace[j].cb} \subseteq EventCallbacks
                        => trace[i].line < trace[j].line)
    /\ \A i \in DOMAIN trace :
         trace[i].cb \in EventCallbacks
           => IsDataLine(ls, trace[i].line) /\ trace[i].line <= CompleteLines
    /\ pc = "reading" =>
         /\ lineNo = CompleteLines
         /\ \A n \in 1..CompleteLines : \A cb \in cbs :
              Fires(ls, n, cb) => \E i \in DOMAIN trace : trace[i].line = n /\ trace[i].cb = cb

\* a source and then a delta have been delivered, the call still reading
InArrivalOrderWitness ==
  /\ pc = "reading"
  /\ Len(trace) = 2
  /\ trace[1].cb = "onSource"
  /\ trace[2].cb = "onChunk"
  /\ trace[1].line < trace[2].line

\* ------------------------------------------------------------------------
\* MarkdownRenderer: the passes of render(), each regular-expression
\* replacement carried out character by character. The text rendered holds
\* no CR and no other line terminator than LF.
\* ------------------------------------------------------------------------

\* s holds pat at index i
At(s, i, pat) ==
  i >= 1 /\ i + Len(pat) - 1 <= Len(s) /\ \A k \in DOMAIN pat : s[i + k - 1] = pat[k]

\* the least element of a set of numbers, 0 for the empty set
Least(S) == IF S = {} THEN 0 ELSE CHOOSE m \in S : \A o \in S : m <= o

\* the first index >= from at which s holds pat (0: none)
IndexOf(s, pat, from) == Least({i \in from..Len(s) : At(s, i, pat)})

\* the concatenation of a sequence of strings
RECURSIVE Flatten(_)
Flatten(ss) ==
  IF Len(ss) = 0 THEN <<>>
  ELSE IF Len(ss) = 1 THEN ss[1]
  ELSE LET h == Len(ss) \div 2 IN
    Flatten(SubSeq(ss, 1, h)) \o Flatten(SubSeq(ss, h + 1, Len(ss)))

\* lines.join('\n')
JoinLines(lines) ==
  Flatten([i \in DOMAIN lines |-> IF i = 1 THEN lines[i] ELSE <<LF>> \o lines[i]])

Letters ==
  {"a", "b", "c", "d", "e", "f", "g", "h", "i", "j", "k", "l", "m", "n", "o", "p", "q",
   "r", "s", "t", "u", "v", "w", "x", "y", "z", "A", "B", "C", "D", "E", "F", "G", "H",
   "I", "J", "K", "L", "M", "N", "O", "P", "Q", "R", "S", "T", "U", "V", "W", "X", "Y", "Z"}

\* the class \w
WordChars == Letters \cup Digits \cup {"_"}

\* what a regular expression found at one start index: ok, the index of the
\* last character matched, and the replacement
NoMatch == [ok |-> FALSE, end |-> 0, out |-> <<>>]
Matched(end, out) == [ok |-> TRUE, end |-> end, out |-> out]

\* text.replace(/re/g, replacement): M(text, i) is the match of re that
\* starts at index i; matches are taken leftmost first, without overlap
RECURSIVE ReplaceAll(_, _, _)
ReplaceAll(M(_, _), text, from) ==
  LET i == Least({j \in from..Len(text) : M(text, j).ok}) IN
    IF i = 0 THEN SubSeq(text, from, Len(text))
    ELSE LET m == M(text, i) IN
      SubSeq(text, from, i - 1) \o m.out \o ReplaceAll(M, text, m.end + 1)

\* a map without the entries of < and >
EscapeCharKeepsAngles(c) ==
  CASE c = "&" -> <<"&", "a", "m", "p", ";">>
    [] c = Quote -> <<"&", "q", "u", "o", "t", ";">>
    [] c = "'" -> <<"&", "#", "0", "3", "9", ";">>
    [] OTHER -> <<c>>

\* _escapeHtml: the entity of one character
EscapeChar(c) ==
  CASE c = "&" -> <<"&", "a", "m", "p", ";">>
    [] c = "<" -> <<"&", "l", "t", ";">>
    [] c = ">" -> <<"&", "g", "t", ";">>
    [] c = Quote -> <<"&", "q", "u", "o", "t", ";">>
    [] c = "'" -> <<"&", "#", "0", "3", "9", ";">>
    [] OTHER -> <<c>>

\* _escapeHtml
EscapeHtml(text) == Flatten([i \in DOMAIN text |-> EscapeChar(text[i])])

\* the backtick character
Tick == "U+0060"
Fence == <<Tick, Tick, Tick>>
Backtick == <<Tick>>

\* /```(\w*)\n([\s\S]*?)```/ at index i
CodeBlockMatch(text, i) ==
  IF ~At(text, i, Fence) THEN NoMatch
  ELSE LET n == Least({j \in (i + 3)..Len(text) : text[j] \notin WordChars}) IN
    IF n = 0 \/ text[n] # LF THEN NoMatch
    ELSE LET c == IndexOf(text, Fence, n + 1) IN
      IF c = 0 THEN NoMatch
      ELSE LET lang == SubSeq(text, i + 3, n - 1)
               code == SubSeq(text, n + 1, c - 1)
               langClass == IF lang # <<>> THEN <<" ", "c", "l", "a", "s", "s", "=", Quote, "l", "a", "n", "g", "u", "a", "g", "e", "-">> \o lang \o <<Quote>> ELSE <<>>
           IN Matched(c + 2, <<"<", "p", "r", "e", ">", "<", "c", "o", "d", "e">> \o langClass \o <<">">> \o Trim(code) \o <<"<", "/", "c", "o", "d", "e", ">", "<", "/", "p", "r", "e", ">">>)

\* _renderCodeBlocks
RenderCodeBlocks(text) == ReplaceAll(CodeBlockMatch, text, 1)

\* /`([^`]+)`/ at index i
InlineCodeMatch(text, i) ==
  IF ~At(text, i, Backtick) THEN NoMatch
  ELSE LET j == IndexOf(text, Backtick, i + 1) IN
    IF j < i + 2 THEN NoMatch
    ELSE Matched(j, <<"<", "c", "o", "d", "e", ">">> \o SubSeq(text, i + 1, j - 1) \o <<"<", "/", "c", "o", "d", "e", ">">>)

\* _renderInlineCode
RenderInlineCode(text) == ReplaceAll(InlineCodeMatch, text, 1)

\* /^# (.+)$/m and its like on one line: marks is the run of #, tag the
\* element name
HeaderLine(line, marks, tag) ==
  IF At(line, 1, marks \o <<" ">>) /\ Len(line) > Len(marks) + 1
  THEN <<"<">> \o tag \o <<">">> \o SubSeq(line, Len(marks) + 2, Len(line))
       \o <<"<", "/">> \o tag \o <<">">>
  ELSE line

H4Line(line) == HeaderLine(line, <<"#", "#", "#">>, <<"h", "4">>)
H3Line(line) == HeaderLine(line, <<"#", "#">>, <<"h", "3">>)
H2Line(line) == HeaderLine(line, <<"#">>, <<"h", "2">>)
AllHeaders(line) == H2Line(H3Line(H4Line(line)))

\* _renderHeaders
RenderHeaders(text) == JoinLines([i \in DOMAIN Split(text, LF) |-> AllHeaders(Split(text, LF)[i])])

\* one alternative of the bold expression: mark(.+?)mark at index i
StrongMatch(text, i, mark) ==
  IF ~At(text, i, mark) THEN NoMatch
  ELSE LET c == IndexOf(text, mark, i + 3) IN
    IF c = 0 \/ \E t \in (i + 2)..(c - 1) : text[t] = LF THEN NoMatch
    ELSE Matched(c + 1, <<"<", "s", "t", "r", "o", "n", "g", ">">> \o SubSeq(text, i + 2, c - 1) \o <<"<", "/", "s", "t", "r", "o", "n", "g", ">">>)

\* /\*\*(.+?)\*\*|__(.+?)__/ at index i
BoldMatch(text, i) ==
  LET stars == StrongMatch(text, i, <<"*", "*">>) IN
    IF stars.ok THEN stars ELSE StrongMatch(text, i, <<"_", "_">>)

\* _renderBold
RenderBold(text) == ReplaceAll(BoldMatch, text, 1)

\* /(?<!\*)\*([^*]+)\*(?!\*)/ at index i
ItalicMatch(text, i) ==
  IF ~At(text, i, <<"*">>) \/ At(text, i - 1, <<"*">>) THEN NoMatch
  ELSE LET j == IndexOf(text, <<"*">>, i + 1) IN
    IF j < i + 2 \/ At(text, j + 1, <<"*">>) THEN NoMatch
    ELSE Matched(j, <<"<", "e", "m", ">">> \o SubSeq(text, i + 1, j - 1) \o <<"<", "/", "e", "m", ">">>)

\* _renderItalic
RenderItalic(text) == ReplaceAll(ItalicMatch, text, 1)

\* /\[([^\]]+)\]\(([^)]+)\)/ at index i
LinkMatch(text, i) ==
  IF ~At(text, i, <<"[">>) THEN NoMatch
  ELSE LET j == IndexOf(text, <<"]">>, i + 1) IN
    IF j < i + 2 \/ ~At(text, j + 1, <<"(">>) THEN NoMatch
    ELSE LET k == IndexOf(text, <<")">>, j + 2) IN
      IF k < j + 3 THEN NoMatch
      ELSE Matched(k, <<"<", "a", " ", "h", "r", "e", "f", "=", Quote>> \o SubSeq(text, j + 2, k - 1) \o <<Quote, " ", "t", "a", "r", "g", "e", "t", "=", Quote, "_", "b", "l", "a", "n", "k", Quote, " ", "r", "e", "l", "=", Quote, "n", "o", "o", "p", "e", "n", "e", "r", " ", "n", "o", "r", "e", "f", "e", "r", "r", "e", "r", Quote, ">">>
                      \o SubSeq(text, i + 1, j - 1) \o <<"<", "/", "a", ">">>)

\* _renderLinks
RenderLinks(text) == ReplaceAll(LinkMatch, text, 1)

\* line.match(/^[\-\*]\s+(.+)$/): ok and the captured item
ListMatch(line) ==
  IF Len(line) < 3 \/ line[1] \notin {"-", "*"} \/ ~IsWs(line[2])
  THEN [ok |-> FALSE, item |-> <<>>]
  ELSE LET n == Least({j \in 2..Len(line) : ~IsWs(line[j])}) IN
    IF n # 0 THEN [ok |-> TRUE, item |-> SubSeq(line, n, Len(line))]
    ELSE [ok |-> TRUE, item |-> <<line[Len(line)]>>]

UlOpen == <<"<", "u", "l", ">">>
UlClose == <<"<", "/", "u", "l", ">">>
ListItem(item) == <<"<", "l", "i", ">">> \o item \o <<"<", "/", "l", "i", ">">>

\* the loop without the closing tag after it (lines 338-340 left out)
RECURSIVE ListLoopNoFinalClose(_, _, _, _)
ListLoopNoFinalClose(lines, i, inList, res) ==
  IF i > Len(lines) THEN res
  ELSE LET listMatch == ListMatch(lines[i]) IN
    IF listMatch.ok
    THEN ListLoopNoFinalClose(lines, i + 1, TRUE,
                  (IF ~inList THEN Append(res, UlOpen) ELSE res) \o <<ListItem(listMatch.item)>>)
    ELSE ListLoopNoFinalClose(lines, i + 1, FALSE,
                  (IF inList THEN Append(res, UlClose) ELSE res) \o <<lines[i]>>)

\* the for loop of _renderLists from line i on
RECURSIVE ListLoop(_, _, _, _)
ListLoop(lines, i, inList, res) ==
  IF i > Len(lines) THEN IF inList THEN Append(res, UlClose) ELSE res
  ELSE LET listMatch == ListMatch(lines[i]) IN
    IF listMatch.ok
    THEN ListLoop(lines, i + 1, TRUE,
                  (IF ~inList THEN Append(res, UlOpen) ELSE res) \o <<ListItem(listMatch.item)>>)
    ELSE ListLoop(lines, i + 1, FALSE,
                  (IF inList THEN Append(res, UlClose) ELSE res) \o <<lines[i]>>)

\* _renderLists
RenderLists(text) == JoinLines(ListLoop(Split(text, LF), 1, FALSE, <<>>))

\* the lines _renderLineBreaks leaves alone
BlockStarts == {<<"<", "p", "r", "e", ">">>, <<"<", "u", "l", ">">>, <<"<", "/", "p", "r", "e", ">">>, <<"<", "/", "u", "l", ">">>, <<"<", "l", "i", ">">>, <<"<", "h">>}

\* the callback of the map of _renderLineBreaks
BreakLine(arr, i) ==
  LET line == arr[i] IN
    IF \E b \in BlockStarts : StartsWith(line, b) THEN line
    ELSE IF i < Len(arr) /\ arr[i + 1] # <<>> /\ ~StartsWith(arr[i + 1], <<"<">>)
            /\ Trim(line) # <<>>
    THEN line \o <<"<", "b", "r", ">">>
    ELSE line

\* _renderLineBreaks
RenderLineBreaks(text) ==
  LET arr == Split(text, LF) IN JoinLines([i \in DOMAIN arr |-> BreakLine(arr, i)])

\* render(text), with the options MessageItem constructs it with
Render(text) ==
  IF text = <<>> THEN <<>>
  ELSE RenderLineBreaks(RenderLists(RenderLinks(RenderItalic(RenderBold(
         RenderHeaders(RenderInlineCode(RenderCodeBlocks(EscapeHtml(text)))))))))

\* ------------------------------------------------------------------------
\* MessageItem: the citation processor and the content update
\* ------------------------------------------------------------------------

CiteOpen == <<":", "c", "i", "t", "e", "[">>

\* String(n) for a number below 100
DigitChar(d) ==
  CASE d = 0 -> "0" [] d = 1 -> "1" [] d = 2 -> "2" [] d = 3 -> "3" [] d = 4 -> "4"
    [] d = 5 -> "5" [] d = 6 -> "6" [] d = 7 -> "7" [] d = 8 -> "8" [] OTHER -> "9"
NumStr(n) == IF n < 10 THEN <<DigitChar(n)>> ELSE <<DigitChar(n \div 10), DigitChar(n % 10)>>

\* a sourceMap numbered from 0: sourceMap.set(source.sourceId, index)
SourceMapGetZeroBased(srcs, sourceId) ==
  LET at == {n \in DOMAIN srcs : srcs[n].sourceId = sourceId} IN
    IF at = {} THEN 0 ELSE (CHOOSE m \in at : \A o \in at : o <= m) - 1

\* sourceMap.get(sourceId): the forEach of lines 132-135 lets the last
\* source of an id overwrite the earlier ones; 0 stands for undefined
SourceMapGet(srcs, sourceId) ==
  LET at == {n \in DOMAIN srcs : srcs[n].sourceId = sourceId} IN
    IF at = {} THEN 0 ELSE CHOOSE m \in at : \A o \in at : o <= m

\* the <sup> of line 141
Citation(sourceId, num) ==
  <<"<", "s", "u", "p", " ", "c", "l", "a", "s", "s", "=", Quote, "c", "i", "t", "a", "t", "i", "o", "n", Quote, " ", "d", "a", "t", "a", "-", "s", "o", "u", "r", "c", "e", "=", Quote>> \o sourceId \o <<Quote, ">", "[">> \o NumStr(num) \o <<"]", "<", "/", "s", "u", "p", ">">>

\* /:cite\[([^\]]+)\]/ at index i, and the replacer of lines 138-144
CiteMatch(srcs, text, i) ==
  IF ~At(text, i, CiteOpen) THEN NoMatch
  ELSE LET j == IndexOf(text, <<"]">>, i + Len(CiteOpen)) IN
    IF j < i + Len(CiteOpen) + 1 THEN NoMatch
    ELSE LET sourceId == SubSeq(text, i + Len(CiteOpen), j - 1)
             num == SourceMapGet(srcs, sourceId)
         IN IF num # 0 THEN Matched(j, Citation(sourceId, num))
            ELSE Matched(j, SubSeq(text, i, j))

\* _processCitations, this._sources being srcs (<<>>: null)
ProcessCitations(srcs, content) ==
  LET M(text, i) == CiteMatch(srcs, text, i) IN ReplaceAll(M, content, 1)

\* _updateContent: what contentEl.innerHTML is set to
UpdatedContent(srcs, content) ==
  LET renderedContent == Render(content) IN
    IF Len(srcs) > 0 THEN ProcessCitations(srcs, renderedContent) ELSE renderedContent

\* ------------------------------------------------------------------------
\* One connected message element: its content is set or appended to and its
\* source list assigned, in any order
\* ------------------------------------------------------------------------

SourceIds == {<<"a">>, <<"b">>}
MaxSources == 2
MaxPieces == 3

\* an InlineSource, of which the element reads the sourceId only
SourceOf(id) == [sourceId |-> id]

\* the source lists of at most MaxSources records, repeated ids included
SourceLists == UNION {[1..n -> {SourceOf(id) : id \in SourceIds}] : n \in 0..MaxSources}

\* the marker of an id
Marker(id) == CiteOpen \o id \o <<"]">>

\* the ids of the markers: one that sources have, one of no source, and one
\* of no source that itself holds the opening of a marker
NestedId == <<"z", ":", "c", "i", "t", "e", "[", "a">>
MarkerIds == {<<"a">>, <<"z">>, NestedId}
Markers == {Marker(id) : id \in MarkerIds}

TextPieces == {<<"x", " ">>}
CodePieces == {Backtick, Fence \o <<LF>>}
Chunks == TextPieces \cup Markers \cup CodePieces

\* the values the content is set to: nothing, text, a marker
ContentValues == {<<>>} \cup TextPieces \cup {Marker(<<"a">>)}

\* lines 66-69: appendContent(chunk)
AppendContent ==
  /\ Len(pieces) < MaxPieces
  /\ \E chunk \in Chunks :
       /\ itemContent' = itemContent \o chunk
       /\ pieces' = Append(pieces, chunk)
       /\ contentHtml' = UpdatedContent(itemSources, itemContent')
  /\ stale' = FALSE
  /\ UNCHANGED itemSources
  /\ UNCHANGED streamVars
  /\ UNCHANGED configVars
  /\ UNCHANGED renderVars
  /\ UNCHANGED pairVars
  /\ UNCHANGED populateVars
  /\ UNCHANGED widgetVars

\* lines 54-57: set content(value)
SetContent ==
  /\ \E value \in ContentValues :
       /\ itemContent' = value
       /\ pieces' = IF value = <<>> THEN <<>> ELSE <<value>>
       /\ contentHtml' = UpdatedContent(itemSources, value)
  /\ stale' = FALSE
  /\ UNCHANGED itemSources
  /\ UNCHANGED streamVars
  /\ UNCHANGED configVars
  /\ UNCHANGED renderVars
  /\ UNCHANGED pairVars
  /\ UNCHANGED populateVars
  /\ UNCHANGED widgetVars

\* lines 89-95: set sources(value); _updateReferences writes the references
\* section and leaves the .content node alone
SetSources ==
  /\ \E value \in SourceLists : itemSources' = value
  /\ stale' = TRUE
  /\ UNCHANGED <<itemContent, contentHtml, pieces>>
  /\ UNCHANGED streamVars
  /\ UNCHANGED configVars
  /\ UNCHANGED renderVars
  /\ UNCHANGED pairVars
  /\ UNCHANGED populateVars
  /\ UNCHANGED widgetVars

InitItem ==
  /\ frames = <<>>
  /\ stream = <<>>
  /\ cbs = AllCallbacks
  /\ pos = 0
  /\ decoder = InitialAcc.decoder
  /\ buffer = InitialAcc.buffer
  /\ currentEvent = InitialAcc.currentEvent
  /\ accumulatedContent = InitialAcc.accumulatedContent
  /\ messageId = InitialAcc.messageId
  /\ references = InitialAcc.references
  /\ sources = InitialAcc.sources
  /\ trace = InitialAcc.trace
  /\ lineNo = InitialAcc.lineNo
  /\ pc = InitialAcc.pc
  /\ result = InitialAcc.result
  /\ error = InitialAcc.error
  /\ NewItem
  /\ NoConfig
  /\ NoRender
  /\ NoPair
  /\ NoMessage
  /\ NoWidget

NextItem == AppendContent \/ SetContent \/ SetSources

SpecItem == InitItem /\ [][NextItem]_vars

\* ------------------------------------------------------------------------
\* What the pieces say, read off without the citation processor
\* ------------------------------------------------------------------------

IsMarker(piece) == piece \in Markers

\* the id between the brackets of a marker
IdOf(piece) == SubSeq(piece, Len(CiteOpen) + 1, Len(piece) - 1)

\* the 1-based positions of the sources of an id in a list
PositionsOf(srcs, id) == {n \in DOMAIN srcs : srcs[n].sourceId = id}

\* the superscript reference of an id with number n
Superscript(id, n) ==
  <<"<", "s", "u", "p", " ", "c", "l", "a", "s", "s", "=", Quote, "c", "i", "t", "a", "t", "i", "o", "n", Quote, " ", "d", "a", "t", "a", "-", "s", "o", "u", "r", "c", "e", "=", Quote>> \o id \o <<Quote, ">", "[">> \o <<DigitChar(n)>> \o <<"]", "<", "/", "s", "u", "p", ">">>

\* what a piece may become: a marker whose id sources of the list have, the
\* superscript reference numbered with the position of one of them; any
\* other piece, itself
ImagesOf(srcs, piece) ==
  IF IsMarker(piece) /\ PositionsOf(srcs, IdOf(piece)) # {}
  THEN {Superscript(IdOf(piece), n) : n \in PositionsOf(srcs, IdOf(piece))}
  ELSE {piece}

\* what a sequence of pieces may become: the images of its pieces in order
RECURSIVE ImagesOfAll(_, _)
ImagesOfAll(srcs, ps) ==
  IF ps = <<>> THEN {<<>>}
  ELSE {h \o t : h \in ImagesOf(srcs, Head(ps)), t \in ImagesOfAll(srcs, Tail(ps))}

\* every piece is ordinary text or a marker
PlainPieces == \A k \in DOMAIN pieces : pieces[k] \in TextPieces \cup Markers

\* C9: once the content has been written with the current source list, it is
\* the pieces in their order, every marker whose id is the sourceId of a
\* source replaced by the superscript reference numbered with the 1-based
\* position of such a source in the list, every other marker and all
\* ordinary text unchanged; for every source list, id and number of markers.
CitationsResolved ==
  (~stale /\ PlainPieces) => contentHtml \in ImagesOfAll(itemSources, pieces)

\* two markers of the second source of the list around a marker of no source
CitationsResolvedWitness ==
  /\ ~stale
  /\ itemSources = <<SourceOf(<<"b">>), SourceOf(<<"a">>)>>
  /\ pieces = <<Marker(<<"a">>), Marker(<<"z">>), Marker(<<"a">>)>>
  /\ contentHtml = Superscript(<<"a">>, 2) \o Marker(<<"z">>) \o Superscript(<<"a">>, 2)

\* a marker stands alone between two backticks or between two fences
MarkerInCode ==
  /\ Len(pieces) = 3
  /\ pieces[1] \in CodePieces
  /\ pieces[3] = pieces[1]
  /\ IsMarker(pieces[2])

\* C10: a marker inside an inline code span or a fenced code block is not
\* turned into a numbered citation, also when its id is that of a source:
\* the content written holds no superscript reference.
CodeMarkersKept ==
  (~stale /\ MarkerInCode) => IndexOf(contentHtml, <<"<", "s", "u", "p">>, 1) = 0

\* ------------------------------------------------------------------------
\* ConfigManager: defaults, the JSON script tag and the HTML attributes of
\* the widget element merged by load()
\* ------------------------------------------------------------------------

\* a string as a configuration value
Str(chars) == [t |-> "str", v |-> chars]

\* the entries of ConfigManager.defaults
DefaultEntries ==
  <<<<<<"e", "n", "d", "p", "o", "i", "n", "t", "U", "r", "l">>, Str(<<>>)>>,
   <<<<"e", "n", "d", "p", "o", "i", "n", "t", "I", "d">>, Str(<<>>)>>,
   <<<<"a", "p", "i", "K", "e", "y">>, Str(<<>>)>>,
   <<<<"p", "o", "s", "i", "t", "i", "o", "n">>, Str(<<"b", "o", "t", "t", "o", "m", "-", "r", "i", "g", "h", "t">>)>>,
   <<<<"t", "i", "t", "l", "e">>, Str(<<"C", "h", "a", "t", " ", "w", "i", "t", "h", " ", "u", "s">>)>>,
   <<<<"w", "e", "l", "c", "o", "m", "e", "M", "e", "s", "s", "a", "g", "e">>, Str(<<"H", "e", "l", "l", "o", "!", " ", "H", "o", "w", " ", "c", "a", "n", " ", "I", " ", "h", "e", "l", "p", " ", "y", "o", "u", " ", "t", "o", "d", "a", "y", "?">>)>>,
   <<<<"p", "r", "i", "m", "a", "r", "y", "C", "o", "l", "o", "r">>, Str(<<"#", "6", "3", "6", "6", "f", "1">>)>>,
   <<<<"s", "e", "c", "o", "n", "d", "a", "r", "y", "C", "o", "l", "o", "r">>, Str(<<"#", "8", "1", "8", "c", "f", "8">>)>>,
   <<<<"b", "a", "c", "k", "g", "r", "o", "u", "n", "d", "C", "o", "l", "o", "r">>, Str(<<"#", "f", "f", "f", "f", "f", "f">>)>>,
   <<<<"t", "e", "x", "t", "C", "o", "l", "o", "r">>, Str(<<"#", "1", "f", "2", "9", "3", "7">>)>>,
   <<<<"s", "t", "o", "r", "a", "g", "e", "K", "e", "y">>, Str(<<"o", "m", "n", "i", "f", "a", "c", "t", "-", "c", "h", "a", "t">>)>>,
   <<<<"e", "n", "a", "b", "l", "e", "P", "e", "r", "s", "i", "s", "t", "e", "n", "c", "e">>, JsonTrue>>,
   <<<<"e", "n", "a", "b", "l", "e", "I", "n", "l", "i", "n", "e", "S", "o", "u", "r", "c", "e", "s">>, JsonFalse>>,
   <<<<"e", "n", "a", "b", "l", "e", "A", "g", "e", "n", "t", "i", "c", "W", "o", "r", "k", "f", "l", "o", "w">>, JsonFalse>>,
   <<<<"h", "i", "d", "e", "S", "o", "u", "r", "c", "e", "s">>, JsonFalse>>,
   <<<<"d", "e", "b", "u", "g">>, JsonFalse>>>>

\* the entries of ConfigManager.attributeMap: attribute, property
attributeMap ==
  <<<<<<"e", "n", "d", "p", "o", "i", "n", "t", "-", "u", "r", "l">>, <<"e", "n", "d", "p", "o", "i", "n", "t", "U", "r", "l">>>>,
   <<<<"e", "n", "d", "p", "o", "i", "n", "t", "-", "i", "d">>, <<"e", "n", "d", "p", "o", "i", "n", "t", "I", "d">>>>,
   <<<<"a", "p", "i", "-", "k", "e", "y">>, <<"a", "p", "i", "K", "e", "y">>>>,
   <<<<"p", "o", "s", "i", "t", "i", "o", "n">>, <<"p", "o", "s", "i", "t", "i", "o", "n">>>>,
   <<<<"t", "i", "t", "l", "e">>, <<"t", "i", "t", "l", "e">>>>,
   <<<<"w", "e", "l", "c", "o", "m", "e", "-", "m", "e", "s", "s", "a", "g", "e">>, <<"w", "e", "l", "c", "o", "m", "e", "M", "e", "s", "s", "a", "g", "e">>>>,
   <<<<"p", "r", "i", "m", "a", "r", "y", "-", "c", "o", "l", "o", "r">>, <<"p", "r", "i", "m", "a", "r", "y", "C", "o", "l", "o", "r">>>>,
   <<<<"s", "e", "c", "o", "n", "d", "a", "r", "y", "-", "c", "o", "l", "o", "r">>, <<"s", "e", "c", "o", "n", "d", "a", "r", "y", "C", "o", "l", "o", "r">>>>,
   <<<<"b", "a", "c", "k", "g", "r", "o", "u", "n", "d", "-", "c", "o", "l", "o", "r">>, <<"b", "a", "c", "k", "g", "r", "o", "u", "n", "d", "C", "o", "l", "o", "r">>>>,
   <<<<"t", "e", "x", "t", "-", "c", "o", "l", "o", "r">>, <<"t", "e", "x", "t", "C", "o", "l", "o", "r">>>>,
   <<<<"s", "t", "o", "r", "a", "g", "e", "-", "k", "e", "y">>, <<"s", "t", "o", "r", "a", "g", "e", "K", "e", "y">>>>,
   <<<<"e", "n", "a", "b", "l", "e", "-", "p", "e", "r", "s", "i", "s", "t", "e", "n", "c", "e">>, <<"e", "n", "a", "b", "l", "e", "P", "e", "r", "s", "i", "s", "t", "e", "n", "c", "e">>>>,
   <<<<"e", "n", "a", "b", "l", "e", "-", "i", "n", "l", "i", "n", "e", "-", "s", "o", "u", "r", "c", "e", "s">>, <<"e", "n", "a", "b", "l", "e", "I", "n", "l", "i", "n", "e", "S", "o", "u", "r", "c", "e", "s">>>>,
   <<<<"e", "n", "a", "b", "l", "e", "-", "a", "g", "e", "n", "t", "i", "c", "-", "w", "o", "r", "k", "f", "l", "o", "w">>, <<"e", "n", "a", "b", "l", "e", "A", "g", "e", "n", "t", "i", "c", "W", "o", "r", "k", "f", "l", "o", "w">>>>,
   <<<<"h", "i", "d", "e", "-", "s", "o", "u", "r", "c", "e", "s">>, <<"h", "i", "d", "e", "S", "o", "u", "r", "c", "e", "s">>>>,
   <<<<"d", "e", "b", "u", "g">>, <<"d", "e", "b", "u", "g">>>>>>

booleanAttributes ==
  {<<"e", "n", "a", "b", "l", "e", "P", "e", "r", "s", "i", "s", "t", "e", "n", "c", "e">>,
   <<"e", "n", "a", "b", "l", "e", "I", "n", "l", "i", "n", "e", "S", "o", "u", "r", "c", "e", "s">>,
   <<"e", "n", "a", "b", "l", "e", "A", "g", "e", "n", "t", "i", "c", "W", "o", "r", "k", "f", "l", "o", "w">>,
   <<"h", "i", "d", "e", "S", "o", "u", "r", "c", "e", "s">>,
   <<"d", "e", "b", "u", "g">>}

\* the value of the last entry of a key in a sequence of entries
EntryOf(entries, key) ==
  entries[Least({i \in DOMAIN entries :
                   entries[i][1] = key /\ \A j \in DOMAIN entries : entries[j][1] = key => j <= i})][2]

KeysOf(entries) == {entries[i][1] : i \in DOMAIN entries}

\* an object as the function from its own keys to their values
ObjectOf(entries) == [key \in KeysOf(entries) |-> EntryOf(entries, key)]

defaults == ObjectOf(DefaultEntries)

\* Object.assign(target, source)
ObjectAssign(target, source) ==
  [key \in DOMAIN target \cup DOMAIN source |->
     IF key \in DOMAIN source THEN source[key] ELSE target[key]]

LowerCase ==
  <<"a", "b", "c", "d", "e", "f", "g", "h", "i", "j", "k", "l", "m",
    "n", "o", "p", "q", "r", "s", "t", "u", "v", "w", "x", "y", "z">>
UpperCase ==
  <<"A", "B", "C", "D", "E", "F", "G", "H", "I", "J", "K", "L", "M",
    "N", "O", "P", "Q", "R", "S", "T", "U", "V", "W", "X", "Y", "Z">>

\* c.toUpperCase() of a lower-case letter
ToUpperCase(c) == UpperCase[CHOOSE i \in DOMAIN LowerCase : LowerCase[i] = c]

\* /-([a-z])/ at index i, and the replacer of line 120
KebabMatch(key, i) ==
  IF At(key, i, <<"-">>) /\ i < Len(key) /\ \E n \in DOMAIN LowerCase : LowerCase[n] = key[i + 1]
  THEN Matched(i + 1, <<ToUpperCase(key[i + 1])>>)
  ELSE NoMatch

\* line 120: key.replace(/-([a-z])/g, (_, c) => c.toUpperCase())
CamelKey(key) == ReplaceAll(KebabMatch, key, 1)

\* value !== 'false'
NotFalse(chars) == IF chars = JsonFalse.v THEN JsonFalse ELSE JsonTrue

\* Object.entries(json) of a parsed value: the members of an object, the last
\* value of a repeated key at the place of its first member; the characters
\* of a string by index; nothing for a number or a boolean
ObjectEntries(json) ==
  IF json.t = "obj"
  THEN LET firsts == SelectSeq([i \in DOMAIN json.v |-> i],
                               LAMBDA i : \A j \in 1..(i - 1) : json.v[j][1] # json.v[i][1])
       IN [n \in DOMAIN firsts |-> <<json.v[firsts[n]][1], Lookup(json.v, json.v[firsts[n]][1])>>]
  ELSE IF json.t = "str"
  THEN [i \in DOMAIN json.v |-> <<NumStr(i - 1), Str(<<json.v[i]>>)>>]
  ELSE <<>>

\* lines 118-126: one entry of json, normalized
NormalizeEntry(entry) ==
  LET camelKey == CamelKey(entry[1])
      value == entry[2]
  IN IF camelKey \in booleanAttributes /\ value.t = "str"
     THEN <<camelKey, NotFalse(value.v)>>
     ELSE <<camelKey, value>>

\* _normalizeConfig
NormalizeConfig(json) ==
  LET entries == ObjectEntries(json) IN
    ObjectOf([i \in DOMAIN entries |-> NormalizeEntry(entries[i])])

\* the text an empty script tag stands for: script.textContent || '{}'
EmptyObjectText == <<"{", "}">>

\* _loadFromJsonScript: JSON.parse throws on text that is no JSON and
\* Object.entries on null or undefined; the catch leaves the config as it is
LoadFromJsonScript(cfg, scr) ==
  IF scr = <<>> THEN cfg
  ELSE LET jsonConfig == JSONParse(IF scr[1] = <<>> THEN EmptyObjectText ELSE scr[1]) IN
    IF ~jsonConfig.ok \/ jsonConfig.val.t \in {"null", "undef"} THEN cfg
    ELSE ObjectAssign(cfg, NormalizeConfig(jsonConfig.val))

\* _loadFromAttributes: attrs[attr] is getAttribute(attr), <<>> for null
LoadFromAttributes(cfg, attrs) ==
  LET present == SelectSeq(attributeMap, LAMBDA e : attrs[e[1]] # <<>>)
      assigned ==
        [i \in DOMAIN present |->
           LET prop == present[i][2]
               value == attrs[present[i][1]][1]
           IN <<prop, IF prop \in booleanAttributes THEN NotFalse(value) ELSE Str(value)>>]
  IN ObjectAssign(cfg, ObjectOf(assigned))

EndpointUrl == <<"e", "n", "d", "p", "o", "i", "n", "t", "U", "r", "l">>
EndpointId == <<"e", "n", "d", "p", "o", "i", "n", "t", "I", "d">>
UrlRequired == <<"e", "n", "d", "p", "o", "i", "n", "t", "-", "u", "r", "l", " ", "i", "s", " ", "r", "e", "q", "u", "i", "r", "e", "d">>
IdRequired == <<"e", "n", "d", "p", "o", "i", "n", "t", "-", "i", "d", " ", "i", "s", " ", "r", "e", "q", "u", "i", "r", "e", "d">>

\* _validate: the warnings
Validate(cfg) ==
  (IF ~Truthy(cfg[EndpointUrl]) THEN <<UrlRequired>> ELSE <<>>)
  \o (IF ~Truthy(cfg[EndpointId]) THEN <<IdRequired>> ELSE <<>>)

\* a load with the two sources read in the other order
LoadJsonLast(cfg, scr, attrs) == LoadFromJsonScript(LoadFromAttributes(cfg, attrs), scr)

\* load(): the configuration it returns
LoadedConfig(cfg, scr, attrs) == LoadFromAttributes(LoadFromJsonScript(cfg, scr), attrs)

\* the element a manager is constructed for: the attributes that vary, the
\* values they take, and the members the script's object is written with
VariedAttributes == {<<"t", "i", "t", "l", "e">>, <<"e", "n", "d", "p", "o", "i", "n", "t", "-", "u", "r", "l">>, <<"d", "e", "b", "u", "g">>}
AttributeValues == {<<>>, <<"x">>, JsonFalse.v}
JsonMembers ==
  {<<Quote, "t", "i", "t", "l", "e", Quote, ":", Quote, "j", Quote>>,
   <<Quote, "e", "n", "d", "p", "o", "i", "n", "t", "-", "u", "r", "l", Quote, ":", Quote, "k", Quote>>,
   <<Quote, "e", "n", "d", "p", "o", "i", "n", "t", "U", "r", "l", Quote, ":", Quote, "c", Quote>>,
   <<Quote, "d", "e", "b", "u", "g", Quote, ":", "t", "r", "u", "e">>,
   <<Quote, "d", "e", "b", "u", "g", Quote, ":", Quote, "f", "a", "l", "s", "e", Quote>>,
   <<Quote, "h", "i", "d", "e", "-", "s", "o", "u", "r", "c", "e", "s", Quote, ":", Quote, "0", Quote>>,
   <<Quote, "t", "i", "t", "l", "e", Quote, ":", "n", "u", "l", "l">>,
   <<Quote, "e", "x", "t", "r", "a", Quote, ":", "1">>}
MaxMembers == 2

AttributeNames == {attributeMap[i][1] : i \in DOMAIN attributeMap}

\* getAttribute of every attribute name: <<>> (null) or <<value>>
ElementAttributes ==
  {[attr \in AttributeNames |-> IF attr \in VariedAttributes THEN f[attr] ELSE <<>>] :
     f \in [VariedAttributes -> {<<>>} \cup {<<value>> : value \in AttributeValues}]}

\* the text of an object of the given members
ObjectText(members) ==
  <<"{">> \o Flatten([i \in DOMAIN members |->
                        IF i = 1 THEN members[i] ELSE <<",">> \o members[i]]) \o <<"}">>

\* the script tag's text: an object, nothing, null, a string, or no JSON
ScriptTexts ==
  {ObjectText(members) : members \in UNION {[1..n -> JsonMembers] : n \in 0..MaxMembers}}
    \cup {<<>>, JsonNull.v, <<Quote, "a", "b", Quote>>, <<"{", "t", "i", "t", "l", "e", "}">>}

Scripts == {<<>>} \cup {<<text>> : text \in ScriptTexts}

\* lines 60-63: new ConfigManager(element)
InitConfig ==
  /\ NoStream
  /\ NewItem
  /\ attributes \in ElementAttributes
  /\ script \in Scripts
  /\ config = defaults
  /\ warnings = <<>>
  /\ loaded = FALSE
  /\ NoRender
  /\ NoPair
  /\ NoMessage
  /\ NoWidget

\* lines 68-79: load()
Load ==
  /\ config' = LoadedConfig(config, script, attributes)
  /\ warnings' = Validate(config')
  /\ loaded' = TRUE
  /\ UNCHANGED <<attributes, script>>
  /\ UNCHANGED streamVars
  /\ UNCHANGED itemVars
  /\ UNCHANGED renderVars
  /\ UNCHANGED pairVars
  /\ UNCHANGED populateVars
  /\ UNCHANGED widgetVars

NextConfig == Load

SpecConfig == InitConfig /\ [][NextConfig]_vars

\* ------------------------------------------------------------------------
\* What the element says, read off without the manager
\* ------------------------------------------------------------------------

\* the attribute that sets a configuration key
AttributeOf(key) ==
  attributeMap[CHOOSE i \in DOMAIN attributeMap : attributeMap[i][2] = key][1]

\* the members of the script tag's object (none without a tag or an object)
ScriptMembers ==
  IF script = <<>> \/ script[1] = <<>> THEN <<>>
  ELSE LET parsed == JSONParse(script[1]) IN
    IF parsed.ok /\ parsed.val.t = "obj" THEN parsed.val.v ELSE <<>>

\* the members that name a key, in camel case or as the attribute is spelt
MembersOf(key) ==
  {i \in DOMAIN ScriptMembers : ScriptMembers[i][1] \in {key, AttributeOf(key)}}

\* a value as a key takes it: a boolean key reads a string as a flag that
\* only the text false clears
Meaning(key, value) ==
  IF key \in booleanAttributes /\ value.t = "str"
  THEN IF value.v = <<"f", "a", "l", "s", "e">> THEN JsonFalse ELSE JsonTrue
  ELSE value

\* C11: for every configuration key, the configuration load() returns holds
\* the attribute's value if the element has the attribute, otherwise a value
\* the script tag's JSON gives the key if it gives one, otherwise the
\* default; an attribute wins over JSON for the same key.
AttributesOverJsonOverDefaults ==
  loaded =>
    \A key \in DOMAIN defaults :
      IF attributes[AttributeOf(key)] # <<>>
      THEN config[key] = Meaning(key, Str(attributes[AttributeOf(key)][1]))
      ELSE IF MembersOf(key) # {}
      THEN \E i \in MembersOf(key) : config[key] = Meaning(key, ScriptMembers[i][2])
      ELSE config[key] = defaults[key]

\* one key set by both sources, one by the script only, one by neither
AttributesOverJsonWitness ==
  /\ loaded
  /\ attributes[<<"t", "i", "t", "l", "e">>] = <<<<"x">>>>
  /\ attributes[<<"e", "n", "d", "p", "o", "i", "n", "t", "-", "u", "r", "l">>] = <<>>
  /\ script = <<ObjectText(<<<<Quote, "t", "i", "t", "l", "e", Quote, ":", Quote, "j", Quote>>, <<Quote, "e", "n", "d", "p", "o", "i", "n", "t", "-", "u", "r", "l", Quote, ":", Quote, "k", Quote>>>>)>>
  /\ config[<<"t", "i", "t", "l", "e">>] = Str(<<"x">>)
  /\ config[EndpointUrl] = Str(<<"k">>)
  /\ config[EndpointId] = Str(<<>>)

\* ------------------------------------------------------------------------
\* The renderer applied to a text: the list pass, the line-break pass and
\* render() itself, each on every text of three families
\* ------------------------------------------------------------------------

MaxLines == 3
MaxTokens == 3

\* the sequences of at most n elements of a set
SeqsUpTo(S, n) == UNION {[1..k -> S] : k \in 0..n}
LinesUpTo(S, n) == UNION {[1..k -> S] : k \in 1..n}

\* lines the list pass meets: items of either marker, with one space, two
\* or a tab; text, an empty line, a marker with no white space after it
ListLineKinds ==
  {<<"-", " ", "a">>,
   <<"*", " ", "b">>,
   <<"x">>,
   <<>>,
   <<"-", "c">>,
   <<"-", " ">>,
   <<"-", " ", " ", "d">>,
   <<"-", "\t", "e">>}
\* lines the line-break pass meets: text, empty and blank lines, lines that
\* open with inline markup, and the block-level lines of the earlier passes
BreakLineKinds ==
  {<<"t">>,
   <<>>,
   <<" ">>,
   <<"<", "s", "t", "r", "o", "n", "g", ">", "b", "<", "/", "s", "t", "r", "o", "n", "g", ">">>,
   <<"<", "c", "o", "d", "e", ">", "c", "<", "/", "c", "o", "d", "e", ">">>,
   <<"<", "l", "i", ">", "i", "<", "/", "l", "i", ">">>,
   <<"<", "u", "l", ">">>,
   <<"<", "/", "u", "l", ">">>,
   <<"<", "h", "2", ">", "h", "<", "/", "h", "2", ">">>,
   <<"<", "p", "r", "e", ">", "<", "c", "o", "d", "e", ">", "p">>,
   <<"q", "<", "/", "c", "o", "d", "e", ">", "<", "/", "p", "r", "e", ">">>}
\* what stands between the fences of a code block
CodeBodies ==
  {<<"x">>,
   <<"*", "*", "b", "*", "*">>,
   <<"a", LF, "b", LF, "c">>,
   <<"-", " ", "i">>,
   <<"#", " ", "h">>,
   <<Tick, "c", Tick>>,
   <<"<", "b", ">">>}
CodeLanguages == {<<>>, <<"j", "s">>}
\* pieces of text with the five special characters and markdown in them
MarkdownTokens ==
  {<<"<", "b", ">">>,
   <<"&">>,
   <<Quote, "'">>,
   <<"*", "*">>,
   <<Tick>>,
   <<"[", "a", "]", "(", "u", ")">>,
   <<"-", " ">>,
   <<LF>>,
   <<"x">>}

\* a fenced code block as it is written
FencedText(lang, code) == Fence \o lang \o <<LF>> \o code \o <<LF>> \o Fence

ListTexts == {JoinLines(lines) : lines \in LinesUpTo(ListLineKinds, MaxLines)}
BreakTexts == {JoinLines(lines) : lines \in LinesUpTo(BreakLineKinds, MaxLines)}
FencedTexts == {FencedText(lang, code) : lang \in CodeLanguages, code \in CodeBodies}
TokenTexts == {Flatten(tokens) : tokens \in SeqsUpTo(MarkdownTokens, MaxTokens)}
MarkdownInputs == ListTexts \cup BreakTexts \cup FencedTexts \cup TokenTexts

InitRender ==
  /\ NoStream
  /\ NewItem
  /\ NoConfig
  /\ mdText \in MarkdownInputs
  /\ mdHtml = <<>>
  /\ mdPass = "none"
  /\ NoPair
  /\ NoMessage
  /\ NoWidget

\* the result of one method of the renderer for the text
Rendering(pass, html) ==
  /\ mdPass' = pass
  /\ mdHtml' = html
  /\ UNCHANGED mdText
  /\ UNCHANGED streamVars
  /\ UNCHANGED itemVars
  /\ UNCHANGED configVars
  /\ UNCHANGED pairVars
  /\ UNCHANGED populateVars
  /\ UNCHANGED widgetVars

\* lines 315-343: _renderLists(text)
RenderListsCall == Rendering("lists", RenderLists(mdText))

\* lines 348-367: _renderLineBreaks(text)
RenderLineBreaksCall == Rendering("breaks", RenderLineBreaks(mdText))

\* lines 215-231: render(text)
RenderCall == Rendering("render", Render(mdText))

NextRender == RenderListsCall \/ RenderLineBreaksCall \/ RenderCall

SpecRender == InitRender /\ [][NextRender]_vars

\* ------------------------------------------------------------------------
\* What the lines of a text say, read off without the renderer
\* ------------------------------------------------------------------------

TextLines == Split(mdText, LF)
HtmlLines == Split(mdHtml, LF)

\* a list line: a marker, white space after it, and more
IsListLine(line) == Len(line) >= 3 /\ line[1] \in {"-", "*"} /\ line[2] \in {" ", "\t"}

\* what the list pass owes one line: the line itself, or its item with the
\* opening tag before the first item of a run and the closing tag after
\* the last
OwedTo(lines, i) ==
  IF ~IsListLine(lines[i]) THEN <<[kind |-> "line", of |-> lines[i]]>>
  ELSE (IF i = 1 \/ ~IsListLine(lines[i - 1]) THEN <<[kind |-> "open", of |-> <<>>]>> ELSE <<>>)
       \o <<[kind |-> "item", of |-> lines[i]]>>
       \o (IF i = Len(lines) \/ ~IsListLine(lines[i + 1])
           THEN <<[kind |-> "close", of |-> <<>>]>> ELSE <<>>)

Owed(lines) == Flatten([i \in DOMAIN lines |-> OwedTo(lines, i)])

\* an output line is what is owed: a tag, the input line, or one <li>
\* element holding what the list line has after its marker and white space
Pays(out, owed) ==
  CASE owed.kind = "open" -> out = <<"<", "u", "l", ">">>
    [] owed.kind = "close" -> out = <<"<", "/", "u", "l", ">">>
    [] owed.kind = "line" -> out = owed.of
    [] OTHER ->
         \E n \in 3..Len(owed.of) :
           /\ \A k \in 2..(n - 1) : owed.of[k] \in {" ", "\t"}
           /\ out = <<"<", "l", "i", ">">> \o SubSeq(owed.of, n, Len(owed.of)) \o <<"<", "/", "l", "i", ">">>

\* C12: the list pass puts every maximal run of consecutive list lines in
\* exactly one <ul> ... </ul> pair with one <li> per list line, also when the
\* text ends inside the run, and leaves every other line as it is, outside
\* the pairs.
ListRunsWrapped ==
  mdPass = "lists" =>
    /\ Len(HtmlLines) = Len(Owed(TextLines))
    /\ \A k \in DOMAIN HtmlLines : Pays(HtmlLines[k], Owed(TextLines)[k])

\* a line of text, then a run of two items of different markers that the
\* text ends in
ListRunsWitness ==
  /\ mdPass = "lists"
  /\ mdText = <<"x", LF, "-", " ", "a", LF, "*", " ", "b">>
  /\ mdHtml = <<"x", LF, "<", "u", "l", ">", LF, "<", "l", "i", ">", "a", "<", "/", "l", "i", ">", LF, "<", "l", "i", ">", "b", "<", "/", "l", "i", ">", LF, "<", "/", "u", "l", ">">>

\* the block-level lines: a code block's opening or closing, a list's
\* opening or closing, a list item, a heading
BlockTags ==
  {<<"<", "p", "r", "e", ">">>, <<"<", "/", "p", "r", "e", ">">>, <<"<", "u", "l", ">">>, <<"<", "/", "u", "l", ">">>, <<"<", "l", "i", ">">>, <<"<", "h", "2", ">">>, <<"<", "h", "3", ">">>, <<"<", "h", "4", ">">>}
IsBlockLine(line) == \E tag \in BlockTags : StartsWith(line, tag)

\* line i is owed a break
OwedBreak(lines, i) ==
  /\ lines[i] # <<>>
  /\ ~IsBlockLine(lines[i])
  /\ i < Len(lines)
  /\ ~IsBlockLine(lines[i + 1])

\* C13: the line-break pass appends <br> to a line exactly when the line is
\* not empty, is no block-level line, and has a line after it that is no
\* block-level line; a line of text before a line that opens with inline
\* markup gets one.
BreaksExactlyWhereOwed ==
  mdPass = "breaks" =>
    /\ Len(HtmlLines) = Len(TextLines)
    /\ \A i \in DOMAIN TextLines :
         HtmlLines[i] = IF OwedBreak(TextLines, i) THEN TextLines[i] \o <<"<", "b", "r", ">">> ELSE TextLines[i]

\* the element a fenced code block becomes when nothing but escaping and
\* trimming touches its content
CodeElement(lang, code) ==
  <<"<", "p", "r", "e", ">", "<", "c", "o", "d", "e">> \o (IF lang = <<>> THEN <<>> ELSE <<" ", "c", "l", "a", "s", "s", "=", Quote, "l", "a", "n", "g", "u", "a", "g", "e", "-">> \o lang \o <<Quote>>)
  \o <<">">> \o Trim(EscapeHtml(code)) \o <<"<", "/", "c", "o", "d", "e", ">", "<", "/", "p", "r", "e", ">">>

\* C14: the content of a fenced code block reaches the output of render()
\* escaped and trimmed and otherwise as it is: no later pass changes it or
\* puts markup inside the <pre><code> element.
CodeBlockVerbatim ==
  mdPass = "render" =>
    \A lang \in CodeLanguages, code \in CodeBodies :
      mdText = FencedText(lang, code) => mdHtml = CodeElement(lang, code)

\* how the tags of the renderer begin, and how they end
TagOpenings ==
  {<<"<", "p", "r", "e", ">">>,
   <<"<", "/", "p", "r", "e", ">">>,
   <<"<", "c", "o", "d", "e", ">">>,
   <<"<", "c", "o", "d", "e", " ", "c", "l", "a", "s", "s", "=", Quote, "l", "a", "n", "g", "u", "a", "g", "e", "-">>,
   <<"<", "/", "c", "o", "d", "e", ">">>,
   <<"<", "h", "2", ">">>,
   <<"<", "/", "h", "2", ">">>,
   <<"<", "h", "3", ">">>,
   <<"<", "/", "h", "3", ">">>,
   <<"<", "h", "4", ">">>,
   <<"<", "/", "h", "4", ">">>,
   <<"<", "s", "t", "r", "o", "n", "g", ">">>,
   <<"<", "/", "s", "t", "r", "o", "n", "g", ">">>,
   <<"<", "e", "m", ">">>,
   <<"<", "/", "e", "m", ">">>,
   <<"<", "a", " ", "h", "r", "e", "f", "=", Quote>>,
   <<"<", "/", "a", ">">>,
   <<"<", "u", "l", ">">>,
   <<"<", "/", "u", "l", ">">>,
   <<"<", "l", "i", ">">>,
   <<"<", "/", "l", "i", ">">>,
   <<"<", "b", "r", ">">>}
TagEndings ==
  {<<"p", "r", "e", ">">>,
   <<"c", "o", "d", "e", ">">>,
   <<"h", "2", ">">>,
   <<"h", "3", ">">>,
   <<"h", "4", ">">>,
   <<"s", "t", "r", "o", "n", "g", ">">>,
   <<"e", "m", ">">>,
   <<"a", ">">>,
   <<"u", "l", ">">>,
   <<"l", "i", ">">>,
   <<"b", "r", ">">>,
   <<Quote, ">">>}
Entities == {<<"&", "a", "m", "p", ";">>, <<"&", "l", "t", ";">>, <<"&", "g", "t", ";">>, <<"&", "q", "u", "o", "t", ";">>, <<"&", "#", "0", "3", "9", ";">>}

\* the places of a quotation mark inside the renderer's tags: the text
\* around it, and where in that text it stands
QuotePlaces ==
  {<<<<"h", "r", "e", "f", "=", Quote>>, 6>>,
   <<<<Quote, " ", "t", "a", "r", "g", "e", "t", "=">>, 1>>,
   <<<<"t", "a", "r", "g", "e", "t", "=", Quote>>, 8>>,
   <<<<Quote, " ", "r", "e", "l", "=">>, 1>>,
   <<<<"r", "e", "l", "=", Quote>>, 5>>,
   <<<<Quote, ">">>, 1>>,
   <<<<"c", "l", "a", "s", "s", "=", Quote, "l", "a", "n", "g", "u", "a", "g", "e", "-">>, 7>>}

\* the character at index i of html is the renderer's own, or escaped
OwnOrEscaped(html, i) ==
  CASE html[i] = "<" -> \E tag \in TagOpenings : At(html, i, tag)
    [] html[i] = ">" -> \E end \in TagEndings : At(html, i - Len(end) + 1, end)
    [] html[i] = "&" -> \E entity \in Entities : At(html, i, entity)
    [] html[i] = Quote -> \E place \in QuotePlaces : At(html, i - place[2] + 1, place[1])
    [] html[i] = "'" -> FALSE
    [] OTHER -> TRUE

\* C15: in the output of render() no < or > of the input stands as it is:
\* every < and > belongs to a tag of the renderer, every & begins one of
\* the five entities, every quotation mark stands in an attribute the
\* renderer wrote, and no apostrophe is left.
OnlyRendererTags ==
  mdPass = "render" => \A i \in DOMAIN mdHtml : OwnOrEscaped(mdHtml, i)

\* a tag, a link and both quotation marks in the input
OnlyRendererTagsWitness ==
  /\ mdPass = "render"
  /\ mdText = <<"<", "b", ">", "[", "a", "]", "(", "u", ")", Quote, "'">>
  /\ mdHtml = <<"&", "l", "t", ";", "b", "&", "g", "t", ";", "<", "a", " ", "h", "r", "e", "f", "=", Quote, "u", Quote, " ", "t", "a", "r", "g", "e", "t", "=", Quote, "_", "b", "l", "a", "n", "k", Quote, " ", "r", "e", "l", "=", Quote, "n", "o", "o", "p", "e", "n", "e", "r", " ", "n", "o", "r", "e", "f", "e", "r", "r", "e", "r", Quote, ">", "a", "<", "/", "a", ">", "&", "q", "u", "o", "t", ";", "&", "#", "0", "3", "9", ";">>

\* ------------------------------------------------------------------------
\* Two processStream calls of one SSEHandler, their reads interleaved. A
\* call runs from one `await reader.read()` to the next without the other
\* coming in between; the handler's one field, debug, is read by _log and
\* the guard of line 32 only, and what they do is write to the console
\* ------------------------------------------------------------------------

\* the frames the two streams are made of
PairFrames == {FrameWriteA, FrameWriteIdB, FrameErrorBoom}

\* the chunks of the two streams are a few strides long, or all the rest
Stride == 8
PairChunkSizes(rest) == {n \in {Stride * k : k \in 1..MaxChunk} : n <= rest} \cup {rest}

\* lines 29-44: a call just entered, for a response with these bytes
CallOf(bytes, cs) == [stream |-> bytes, cbs |-> cs, pos |-> 0, acc |-> InitialAcc]

\* mutant of LocalsOf: accumulatedContent is kept where both calls see it
LocalsShareContent(rs, i) ==
  [rs[i].acc EXCEPT !.accumulatedContent = rs[1].acc.accumulatedContent]

\* lines 36-44: buffer, currentEvent, accumulatedContent, messageId,
\* references, sources, reader and decoder are declared inside the call
LocalsOf(rs, i) == rs[i].acc

\* call i goes on from its read with the locals a
Resumed(i, n, a) ==
  /\ running' = [running EXCEPT ![i] = [@ EXCEPT !.pos = @ + n, !.acc = a]]
  /\ UNCHANGED debug
  /\ UNCHANGED streamVars
  /\ UNCHANGED itemVars
  /\ UNCHANGED configVars
  /\ UNCHANGED renderVars
  /\ UNCHANGED populateVars
  /\ UNCHANGED widgetVars

InitPair ==
  /\ NoStream
  /\ NewItem
  /\ NoConfig
  /\ NoRender
  /\ NoMessage
  /\ NoWidget
  /\ debug = FALSE
  /\ \E f1, f2 \in FrameSeqs(PairFrames) :
       running = <<CallOf(Concat(f1), AllCallbacks), CallOf(Concat(f2), AllCallbacks)>>

\* lines 13-15: setDebug(enabled)
SetDebug ==
  /\ \E enabled \in BOOLEAN : debug' = enabled
  /\ UNCHANGED running
  /\ UNCHANGED streamVars
  /\ UNCHANGED itemVars
  /\ UNCHANGED configVars
  /\ UNCHANGED renderVars
  /\ UNCHANGED populateVars
  /\ UNCHANGED widgetVars

\* lines 48-151: the read of one of the calls resolves with a chunk
PairReadChunk ==
  \E i \in DOMAIN running :
    LET c == running[i] IN
      /\ c.acc.pc = "reading"
      /\ c.pos < Len(c.stream)
      /\ \E n \in PairChunkSizes(Len(c.stream) - c.pos) :
           Resumed(i, n, ProcessChunk(LocalsOf(running, i), c.cbs,
                                      SubSeq(c.stream, c.pos + 1, c.pos + n)))

\* lines 48-52 and 154-165: the read of one of the calls resolves with done
PairReadDone ==
  \E i \in DOMAIN running :
    LET c == running[i] IN
      /\ c.acc.pc = "reading"
      /\ c.pos = Len(c.stream)
      /\ Resumed(i, 0, Complete(LocalsOf(running, i), c.cbs))

\* lines 48 and 166-171: the read of one of the calls rejects
PairReadFails ==
  \E i \in DOMAIN running :
    LET c == running[i] IN
      /\ c.acc.pc = "reading"
      /\ \E e \in ReadFailures : Resumed(i, 0, Catch(LocalsOf(running, i), c.cbs, e))

NextPair == SetDebug \/ PairReadChunk \/ PairReadDone \/ PairReadFails

SpecPair == InitPair /\ [][NextPair]_vars

\* ------------------------------------------------------------------------
\* C16
\* ------------------------------------------------------------------------

\* call c ended because its read failed
ReadFailedIn(c) == c.acc.error # NoError /\ c.acc.error[1] \in ReadFailures

\* what a call that runs alone has done with the bytes read so far
AloneOn(c) ==
  IF ReadFailedIn(c)
  THEN Catch(Expected(SubSeq(c.stream, 1, c.pos), c.cbs, FALSE), c.cbs, c.acc.error[1])
  ELSE Expected(SubSeq(c.stream, 1, c.pos), c.cbs, c.acc.pc # "reading")

\* C16: of two calls whose reads are interleaved in any order, each has
\* invoked the callbacks and has the accumulator and the outcome of a call
\* that got the same bytes running alone, whatever the other call has read
\* and however it ended (an error event included).
CallsIndependent ==
  \A i \in DOMAIN running : running[i].acc = AloneOn(running[i])

\* an error event has ended one call after a delta of its own, while the
\* other is in the middle of its stream with a delta delivered
CallsIndependentWitness ==
  /\ running # <<>>
  /\ \E i, j \in DOMAIN running :
       /\ i # j
       /\ running[i].acc.pc = "thrown"
       /\ ~ReadFailedIn(running[i])
       /\ running[i].acc.accumulatedContent # <<>>
       /\ running[j].acc.pc = "reading"
       /\ running[j].pos < Len(running[j].stream)
       /\ running[j].acc.accumulatedContent # <<>>
       /\ running[j].acc.trace # <<>>

\* ------------------------------------------------------------------------
\* Streams of the frames a server may send between the first delta and the
\* end: deltas with and without content and messageId, payloads that are no
\* JSON, data lines without an event line of their own
\* ------------------------------------------------------------------------

FrameWriteIdOnly ==
  <<"e", "v", "e", "n", "t", ":", " ", "a", "s", "s", "i", "s", "t", "a", "n", "t", "_", "w", "r", "i", "t", "e", LF, "d", "a", "t", "a", ":", " ", "{", Quote, "m", "e", "s", "s", "a", "g", "e", "I", "d", Quote, ":", Quote, "n", Quote, "}", LF, LF>>

FrameWriteIdEmpty ==
  <<"e", "v", "e", "n", "t", ":", " ", "a", "s", "s", "i", "s", "t", "a", "n", "t", "_", "w", "r", "i", "t", "e", LF, "d", "a", "t", "a", ":", " ", "{", Quote, "m", "e", "s", "s", "a", "g", "e", "I", "d", Quote, ":", Quote, "n", Quote, ",", Quote, "c", "o", "n", "t", "e", "n", "t", Quote, ":", Quote, Quote, "}", LF, LF>>

FrameBadReferences ==
  <<"e", "v", "e", "n", "t", ":", " ", "r", "e", "f", "e", "r", "e", "n", "c", "e", "s", LF, "d", "a", "t", "a", ":", " ", "{", Quote, "a", Quote, LF, LF>>

EventFrames ==
  {FrameWriteA, FrameWriteIdB, FrameWriteIdOnly, FrameWriteIdEmpty, FrameDataOnly,
   FrameSource, FrameBadSource, FrameReferences, FrameBadReferences, FrameUnknown}

InitEvents == InitWith(EventFrames)

SpecEvents == InitEvents /\ [][Next]_vars

\* ------------------------------------------------------------------------
\* C17
\* ------------------------------------------------------------------------

\* line n is an assistant_write data line whose JSON payload carries a
\* non-empty messageId
SuppliesId(ls, n) ==
  LET p == JSONParse(PayloadOf(Trim(ls[n]))) IN
    /\ IsDataLineOf(ls, n, AssistantWriteEvent)
    /\ p.ok
    /\ p.val.t = "obj"
    /\ Get(p.val, "messageId").t = "str"
    /\ Get(p.val, "messageId").v # <<>>

\* the messageId of the last such line among the first n
IdSupplied(ls, n) ==
  LET ws == {m \in 1..n : SuppliesId(ls, m)} IN
    IF ws = {} THEN <<>>
    ELSE LET m == CHOOSE k \in ws : \A o \in ws : o <= k
         IN <<Get(JSONParse(PayloadOf(Trim(ls[m]))).val, "messageId").v>>

\* C17: the stored messageId is that of the last assistant_write event
\* processed so far whose JSON payload carried a non-empty one, whatever
\* the content of that event was (absent or empty included); events that
\* carry none leave it as it was.
MessageIdFromEveryWrite ==
  messageId = IdSupplied(StreamLines, lineNo)

\* ------------------------------------------------------------------------
\* C18
\* ------------------------------------------------------------------------

IsBlankLine(ls, n) == Trim(ls[n]) = <<>>

\* the first line of the frame line n is in: the one after the last blank
\* line before n, or the first line of the stream
FrameStart(ls, n) ==
  LET blanks == {j \in 1..(n - 1) : IsBlankLine(ls, j)} IN
    IF blanks = {} THEN 1
    ELSE 1 + CHOOSE m \in blanks : \A o \in blanks : o <= m

\* line n is a data line with no event line before it in its own frame
IsOrphanData(ls, n) ==
  /\ IsDataLine(ls, n)
  /\ \A j \in FrameStart(ls, n)..(n - 1) : ~IsEventLine(ls, j)

\* the data lines among the first n that have an event line named name in
\* their own frame before them
OwnDataLines(ls, n, name) ==
  {m \in 1..n : IsDataLineOf(ls, m, name) /\ ~IsOrphanData(ls, m)}

\* C18: a data line without an event line of its own frame before it does
\* nothing: no onChunk, onReferences or onSource call is for such a line,
\* the content is made of the deltas handed to onChunk, and references and
\* sources hold only what the data lines that have an event line of their
\* own supplied.
OrphanDataIsUnknown ==
  LET ls == StreamLines IN
    /\ \A i \in DOMAIN trace :
         trace[i].cb \in EventCallbacks => ~IsOrphanData(ls, trace[i].line)
    /\ accumulatedContent = ConcatDeltas(Calls("onChunk"))
    /\ Len(sources) <= Cardinality(OwnDataLines(ls, lineNo, MessageSourceEvent))
    /\ references # <<>> => OwnDataLines(ls, lineNo, ReferencesEvent) # {}

\* ------------------------------------------------------------------------
\* C19
\* ------------------------------------------------------------------------

\* the event a callback is invoked for
EventOf(cb) ==
  CASE cb = "onChunk" -> AssistantWriteEvent
    [] cb = "onReferences" -> ReferencesEvent
    [] cb = "onSource" -> MessageSourceEvent

\* C19: the event name in force is that of the last `event:` line processed,
\* however many blank lines and chunk boundaries came since then (null
\* before the first one), and every data line is handled under the name in
\* force at it: each delta, references and source callback is for a data
\* line under the last event line before it, and no such data line of an
\* assistant_write or message_source event is passed over.
EventNameSticks ==
  LET ls == StreamLines IN
    /\ currentEvent = EventNameAt(ls, lineNo + 1)
    /\ \A i \in DOMAIN trace :
         trace[i].cb \in EventCallbacks
           => IsDataLineOf(ls, trace[i].line, EventOf(trace[i].cb))
    /\ \A n \in 1..lineNo : \A cb \in cbs :
         Fires(ls, n, cb) => \E i \in DOMAIN trace : trace[i].line = n /\ trace[i].cb = cb

\* a data line in a frame without an event line, handed to onChunk under
\* the name of the frame before, two blank lines later the name still in
\* force and a read pending
EventNameSticksWitness ==
  LET ls == StreamLines IN
    /\ pc = "reading"
    /\ currentEvent = <<AssistantWriteEvent>>
    /\ lineNo >= 2
    /\ IsBlankLine(ls, lineNo)
    /\ \E i \in DOMAIN trace :
         /\ trace[i].cb = "onChunk"
         /\ IsOrphanData(ls, trace[i].line)

\* ------------------------------------------------------------------------
\* C20
\* ------------------------------------------------------------------------

\* line n is the data line of an event named name, and its payload is /
\* is not valid JSON
IsJsonDataOf(ls, n, name) ==
  IsDataLineOf(ls, n, name) /\ JSONParse(PayloadOf(Trim(ls[n]))).ok
IsBadDataOf(ls, n, name) ==
  IsDataLineOf(ls, n, name) /\ ~JSONParse(PayloadOf(Trim(ls[n]))).ok

\* the payloads of the valid message_source data lines among the first n,
\* in order
RECURSIVE SourcesSupplied(_, _)
SourcesSupplied(ls, n) ==
  IF n = 0 THEN <<>>
  ELSE SourcesSupplied(ls, n - 1)
         \o (IF IsJsonDataOf(ls, n, MessageSourceEvent)
             THEN <<JSONParse(PayloadOf(Trim(ls[n]))).val>> ELSE <<>>)

\* the payload of the last valid references data line among the first n
ReferencesSupplied(ls, n) ==
  LET rs == {m \in 1..n : IsJsonDataOf(ls, m, ReferencesEvent)} IN
    IF rs = {} THEN <<>>
    ELSE <<JSONParse(PayloadOf(Trim(ls[CHOOSE m \in rs : \A o \in rs : o <= m]))).val>>

\* C20: a references or message_source data line whose payload is not
\* valid JSON is dropped and nothing else happens: sources and references
\* hold exactly what the valid lines processed so far supplied, no
\* onReferences or onSource call is for such a line, the call fails and
\* onError is invoked only when a read fails, and while the call is reading
\* every line delivered has been dealt with.
BadPayloadDropped ==
  LET ls == StreamLines IN
    /\ sources = SourcesSupplied(ls, lineNo)
    /\ references = ReferencesSupplied(ls, lineNo)
    /\ \A i \in DOMAIN trace :
         /\ trace[i].cb = "onSource" => IsJsonDataOf(ls, trace[i].line, MessageSourceEvent)
         /\ trace[i].cb = "onReferences" => IsJsonDataOf(ls, trace[i].line, ReferencesEvent)
         /\ trace[i].cb = "onError" => trace[i].err[1] \in ReadFailures
    /\ pc = "thrown" => ReadFailed
    /\ pc = "reading" => lineNo = CompleteLines

\* a message_source payload that is no JSON was passed over, the valid one
\* after it was stored and handed to onSource, and the call returned
BadPayloadDroppedWitness ==
  LET ls == StreamLines IN
    /\ pc = "returned"
    /\ Len(sources) = 1
    /\ Len(Calls("onSource")) = 1
    /\ Calls("onError") = <<>>
    /\ \E m \in 1..lineNo :
         /\ IsBadDataOf(ls, m, MessageSourceEvent)
         /\ m < Calls("onSource")[1].line

\* ------------------------------------------------------------------------
\* C21
\* ------------------------------------------------------------------------

\* the sourceId values of the records of a source list are pairwise distinct
DistinctIds(srcs) ==
  \A i, j \in DOMAIN srcs :
    i # j => Get(srcs[i], "sourceId") # Get(srcs[j], "sourceId")

\* C21: the records in the accumulator's sources, and those in the sources
\* of a StreamResult, have pairwise distinct sourceId values, whatever
\* message_source events the server sent.
SourceIdsDistinct ==
  /\ DistinctIds(sources)
  /\ (result # NoResult /\ result[1].sources # <<>>) => DistinctIds(result[1].sources[1])

\* ------------------------------------------------------------------------
\* Streams that hold done frames with various payloads
\* ------------------------------------------------------------------------

FrameDoneEmpty ==
  <<"e", "v", "e", "n", "t", ":", " ", "d", "o", "n", "e", LF, "d", "a", "t", "a", ":", " ", LF, LF>>

FrameDoneText ==
  <<"e", "v", "e", "n", "t", ":", " ", "d", "o", "n", "e", LF, "d", "a", "t", "a", ":", " ", "[", "D", "O", "N", "E", "]", LF, LF>>

DoneFrames == {FrameWriteA, FrameSource, FrameDone, FrameDoneEmpty, FrameDoneText}

InitDone == InitWith(DoneFrames)

SpecDone == InitDone /\ [][Next]_vars

\* ------------------------------------------------------------------------
\* C22
\* ------------------------------------------------------------------------

\* line n is the data line of a done frame as it is on the wire: the field
\* name, the colon and the space, then the payload, which may be empty
IsDoneData(ls, n) ==
  StartsWith(ls[n], DataPrefix) /\ EventNameAt(ls, n) = <<DoneEvent>>

\* C22: once the data line of the first done frame has been delivered,
\* whatever its payload, the call has returned at that line with the result
\* of what came before it, and onComplete (when supplied) was the last
\* callback.
DoneWhateverPayload ==
  LET ls == StreamLines IN
    \A n \in 1..CompleteLines :
      (IsDoneData(ls, n) /\ \A m \in 1..(n - 1) : ~IsDoneData(ls, m)) =>
        /\ pc = "returned"
        /\ lineNo = n
        /\ "onComplete" \in cbs =>
             /\ Calls("onComplete") = <<trace[Len(trace)]>>
             /\ trace[Len(trace)].res = result

\* ------------------------------------------------------------------------
\* C23
\* ------------------------------------------------------------------------

\* C23: a call that a failing read ended was rejected with what the read
\* was rejected with, has invoked onError (when supplied) with it as its
\* last callback, and has never invoked onComplete.
ReadFailureReported ==
  ReadFailed =>
    /\ pc = "thrown"
    /\ "onError" \in cbs =>
         /\ trace # <<>>
         /\ trace[Len(trace)].cb = "onError"
         /\ trace[Len(trace)].err = error
    /\ Calls("onComplete") = <<>>

\* ------------------------------------------------------------------------
\* OmnifactChatWidget._renderMessage: a message element is created for a
\* ChatMessage and populated in a microtask. The microtask is queued before
\* processStream is called, so it runs before the first callback of a stream
\* ------------------------------------------------------------------------

\* the messages an element is made for: restored ones with text, markers and
\* sources, and the empty placeholder of a stream
MessagePieces == UNION {[1..n -> TextPieces \cup Markers] : n \in 0..MaxPieces}
ChatMessages ==
  {[pieces |-> ps, content |-> Concat(ps), sources |-> ss] :
     ps \in MessagePieces, ss \in SourceLists}

\* mutant of Populated: the content is assigned while _sources is still null
PopulatedContentFirst(m) ==
  [itemSources |-> m.sources,
   itemContent |-> m.content,
   contentHtml |-> UpdatedContent(<<>>, m.content)]

\* lines 334-347: the element after the microtask: sources (when the message
\* has them), then content, whose setter writes the .content node
Populated(m) ==
  [itemSources |-> m.sources,
   itemContent |-> m.content,
   contentHtml |-> UpdatedContent(m.sources, m.content)]

\* lines 319-331 and message-item.ts 23-31: the element is created with the
\* data-content attribute and appended; connectedCallback takes the content
\* from the attribute and render() writes it without citations
RenderMessage ==
  /\ stage = "none"
  /\ \E m \in ChatMessages :
       /\ msg' = <<m>>
       /\ itemContent' = m.content
       /\ contentHtml' = Render(m.content)
       /\ pieces' = m.pieces
  /\ stage' = "created"
  /\ itemSources' = <<>>
  /\ stale' = FALSE
  /\ UNCHANGED streamVars
  /\ UNCHANGED configVars
  /\ UNCHANGED renderVars
  /\ UNCHANGED pairVars
  /\ UNCHANGED widgetVars

\* lines 334-347: the microtask
PopulateMessage ==
  /\ stage = "created"
  /\ LET el == Populated(msg[1]) IN
       /\ itemSources' = el.itemSources
       /\ itemContent' = el.itemContent
       /\ contentHtml' = el.contentHtml
  /\ stage' = "populated"
  /\ stale' = FALSE
  /\ UNCHANGED <<msg, pieces>>
  /\ UNCHANGED streamVars
  /\ UNCHANGED configVars
  /\ UNCHANGED renderVars
  /\ UNCHANGED pairVars
  /\ UNCHANGED widgetVars

InitPopulate ==
  /\ NoStream
  /\ NewItem
  /\ NoConfig
  /\ NoRender
  /\ NoPair
  /\ NoMessage
  /\ NoWidget

NextPopulate == RenderMessage \/ PopulateMessage

SpecPopulate == InitPopulate /\ [][NextPopulate]_vars

\* ------------------------------------------------------------------------
\* C24
\* ------------------------------------------------------------------------

\* C24: once a message element has been populated it has the sources and
\* the content of its message, and the content shown is the message's
\* pieces in order with every marker of a source of the message replaced by
\* its numbered reference.
SourcesBeforeContent ==
  stage = "populated" =>
    /\ itemSources = msg[1].sources
    /\ itemContent = msg[1].content
    /\ contentHtml \in ImagesOfAll(msg[1].sources, msg[1].pieces)

\* a restored message with two sources, a marker of the second, text and a
\* marker of no source
SourcesBeforeContentWitness ==
  /\ stage = "populated"
  /\ msg[1].sources = <<SourceOf(<<"b">>), SourceOf(<<"a">>)>>
  /\ msg[1].pieces = <<Marker(<<"a">>), <<"x", " ">>, Marker(<<"z">>)>>
  /\ contentHtml = Superscript(<<"a">>, 2) \o <<"x", " ">> \o Marker(<<"z">>)

\* ------------------------------------------------------------------------
\* OmnifactChatWidget: sending a message, the request, the stream's
\* callbacks, the end of the send, clearHistory. The widget is one record;
\* a handler is an operator from the record before to the record after. The
\* handler's callbacks reach the widget as steps: a delta, the completion
\* (onComplete and the return), the failure (onError and the throw). Fields
\* `epoch` of a message and `cleared`, `sends` of the widget are not in the
\* program: they record which conversation a message was made in; nor is
\* `lastSend`, what became of the last call of _sendMessage
\* ------------------------------------------------------------------------

MAX_MESSAGES == 100
MAX_MESSAGE_LENGTH == 10000

MaxSends == 2
MaxClears == 1
MaxDeltas == 2

WelcomeText == <<"h", "i">>
ErrorText == <<"S", "o", "r", "r", "y">>
UserTexts == {<<"q">>, <<" ", "q", " ">>, <<" ">>}
Deltas == {<<"a">>}

ChatMessage(role, content, welcome, err, w) ==
  [role |-> role, content |-> content, isWelcome |-> welcome, isError |-> err,
   epoch |-> w.cleared]

\* lines 150-158 and 516-524
WelcomeMessages(w) ==
  IF w.config.welcomeMessage # <<>>
  THEN <<ChatMessage("assistant", w.config.welcomeMessage, TRUE, FALSE, w)>>
  ELSE <<>>

\* StorageService.saveState: the last MAX_MESSAGES messages, the content of
\* each cut to MAX_MESSAGE_LENGTH characters
Stored(ms) ==
  LET from == IF Len(ms) > MAX_MESSAGES THEN Len(ms) - MAX_MESSAGES + 1 ELSE 1
      kept == SubSeq(ms, from, Len(ms))
  IN [i \in DOMAIN kept |->
        [kept[i] EXCEPT !.content =
           IF Len(@) > MAX_MESSAGE_LENGTH THEN SubSeq(@, 1, MAX_MESSAGE_LENGTH) ELSE @]]

\* lines 500-507: _saveState()
SaveState(w) ==
  IF w.config.enablePersistence
  THEN [w EXCEPT !.storage = <<Stored(w.messages)>>]
  ELSE w

\* lines 380-385: the messages sent to the API
ApiMessages(ms) ==
  LET sent == SelectSeq(ms, LAMBDA m : ~m.isWelcome) IN
    [i \in DOMAIN sent |-> [role |-> sent[i].role, content |-> sent[i].content]]

\* mutant of SendMessage: a send is accepted while another is in flight
SendMessageWhileTyping(w, text) ==
  IF Trim(text) = <<>> THEN [w EXCEPT !.lastSend = "blank"]
  ELSE LET ms == Append(w.messages, ChatMessage("user", Trim(text), FALSE, FALSE, w)) IN
    [w EXCEPT !.messages = ms,
              !.inputDisabled = TRUE,
              !.isTyping = TRUE,
              !.typingShown = TRUE,
              !.apiLog = Append(@, ApiMessages(ms)),
              !.assistantMessage = [content |-> <<>>, at |-> 0, epoch |-> w.cleared],
              !.sendPc = "requesting",
              !.sends = @ + 1,
              !.lastSend = "accepted"]

\* lines 355-397: _sendMessage(text) up to the await of the request
SendMessage(w, text) ==
  IF Trim(text) = <<>> THEN [w EXCEPT !.lastSend = "blank"]
  ELSE IF w.isTyping THEN [w EXCEPT !.lastSend = "busy"]
  ELSE LET ms == Append(w.messages, ChatMessage("user", Trim(text), FALSE, FALSE, w)) IN
    [w EXCEPT !.messages = ms,
              !.inputDisabled = TRUE,
              !.isTyping = TRUE,
              !.typingShown = TRUE,
              !.apiLog = Append(@, ApiMessages(ms)),
              !.assistantMessage = [content |-> <<>>, at |-> 0, epoch |-> w.cleared],
              !.sendPc = "requesting",
              !.sends = @ + 1,
              !.lastSend = "accepted"]

\* mutant of Finally: the input is re-enabled, isTyping is left as it is
FinallyKeepsTyping(w) ==
  SaveState([w EXCEPT !.inputDisabled = FALSE,
                      !.typingShown = FALSE,
                      !.sendPc = "idle"])

\* lines 478-487: the finally block
Finally(w) ==
  SaveState([w EXCEPT !.inputDisabled = FALSE,
                      !.isTyping = FALSE,
                      !.typingShown = FALSE,
                      !.sendPc = "idle"])

\* lines 464-477: the catch block
CatchSend(w) ==
  [w EXCEPT !.messages = Append(@, ChatMessage("assistant", ErrorText, FALSE, TRUE, w))]

\* lines 399-417: the response has come: the placeholder is pushed and
\* rendered, processStream is called
ResponseArrived(w) ==
  [w EXCEPT !.typingShown = FALSE,
            !.messages = Append(@, [role |-> "assistant", content |-> <<>>, isWelcome |-> FALSE,
                                    isError |-> FALSE, epoch |-> w.assistantMessage.epoch]),
            !.assistantMessage.at = Len(w.messages) + 1,
            !.sendPc = "streaming"]

\* an assignment to assistantMessage.content: the object is an element of
\* _state.messages only as long as that is the array it was pushed to
SetAssistantContent(w, content) ==
  LET v == [w EXCEPT !.assistantMessage.content = content] IN
    IF w.assistantMessage.at = 0 THEN v
    ELSE [v EXCEPT !.messages[w.assistantMessage.at].content = content]

\* lines 418-427: onChunk(chunk, accumulated, messageId)
OnChunk(w, chunk) == SetAssistantContent(w, w.assistantMessage.content \o chunk)

\* lines 441-459: onComplete(result)
OnComplete(w) == SaveState(SetAssistantContent(w, w.assistantMessage.content))

\* lines 512-531: clearHistory()
ClearHistory(w) ==
  LET v == [w EXCEPT !.cleared = @ + 1] IN
    [v EXCEPT !.messages = WelcomeMessages(v),
              !.storage = <<>>,
              !.assistantMessage.at = 0]

\* lines 44-47, 68-102 and 137-159: a connected widget with nothing stored
NewWidget(welcome, persist) ==
  LET w == [config |-> [welcomeMessage |-> welcome, enablePersistence |-> persist],
            isOpen |-> FALSE, messages |-> <<>>, isTyping |-> FALSE,
            inputDisabled |-> FALSE, typingShown |-> FALSE, storage |-> <<>>,
            sendPc |-> "idle",
            assistantMessage |-> [content |-> <<>>, at |-> 0, epoch |-> 0],
            apiLog |-> <<>>, cleared |-> 0, sends |-> 0, lastSend |-> "none"]
  IN [w EXCEPT !.messages = WelcomeMessages(w)]

\* the widget goes from its record to w
WidgetStep(w) ==
  /\ widget' = <<w>>
  /\ UNCHANGED streamVars
  /\ UNCHANGED itemVars
  /\ UNCHANGED configVars
  /\ UNCHANGED renderVars
  /\ UNCHANGED pairVars
  /\ UNCHANGED populateVars

InitWidget ==
  /\ NoStream
  /\ NewItem
  /\ NoConfig
  /\ NoRender
  /\ NoPair
  /\ NoMessage
  /\ \E welcome \in {<<>>, WelcomeText}, persist \in BOOLEAN :
       widget = <<NewWidget(welcome, persist)>>

\* lines 244-246 and ChatInput._send: the input dispatches `send` unless it
\* is disabled
InputSend ==
  /\ widget[1].sends < MaxSends
  /\ ~widget[1].inputDisabled
  /\ \E text \in UserTexts : WidgetStep(SendMessage(widget[1], text))

\* lines 536-541: sendMessage(text)
PublicSend ==
  /\ widget[1].sends < MaxSends
  /\ \E text \in UserTexts :
       WidgetStep(SendMessage([widget[1] EXCEPT !.isOpen = TRUE], text))

\* line 397 throws: the request failed
RequestFails ==
  /\ widget[1].sendPc = "requesting"
  /\ WidgetStep(Finally(CatchSend(widget[1])))

\* line 397 resolves
RequestSucceeds ==
  /\ widget[1].sendPc = "requesting"
  /\ WidgetStep(ResponseArrived(widget[1]))

\* the stream delivers a delta
StreamChunk ==
  /\ widget[1].sendPc = "streaming"
  /\ Len(widget[1].assistantMessage.content) < MaxDeltas
  /\ \E chunk \in Deltas : WidgetStep(OnChunk(widget[1], chunk))

\* the stream completes: onComplete, processStream returns
StreamCompletes ==
  /\ widget[1].sendPc = "streaming"
  /\ WidgetStep(Finally(OnComplete(widget[1])))

\* the stream fails: processStream throws
StreamFails ==
  /\ widget[1].sendPc = "streaming"
  /\ WidgetStep(Finally(CatchSend(widget[1])))

\* lines 239-241: the window's clear button
ClearClicked ==
  /\ widget[1].cleared < MaxClears
  /\ WidgetStep(ClearHistory(widget[1]))

NextWidget ==
  \/ InputSend
  \/ PublicSend
  \/ RequestFails
  \/ RequestSucceeds
  \/ StreamChunk
  \/ StreamCompletes
  \/ StreamFails
  \/ ClearClicked

SpecWidget == InitWidget /\ [][NextWidget]_vars

\* ------------------------------------------------------------------------
\* C25
\* ------------------------------------------------------------------------

\* the user messages of a list
UserMessages(ms) == SelectSeq(ms, LAMBDA m : m.role = "user")

\* C25: a request or stream is in flight exactly while isTyping is true, and
\* the input is disabled exactly then; no step taken while isTyping is true
\* starts a request or adds a user message, whatever is sent from the input
\* or through sendMessage.
OneSendInFlight ==
  /\ [](/\ widget[1].isTyping = (widget[1].sendPc # "idle")
        /\ widget[1].inputDisabled = widget[1].isTyping)
  /\ [][widget[1].isTyping =>
          /\ widget'[1].apiLog = widget[1].apiLog
          /\ Len(UserMessages(widget'[1].messages)) <= Len(UserMessages(widget[1].messages))]_vars

\* a send was made through sendMessage while a stream was in flight, and
\* was ignored
OneSendInFlightWitness ==
  /\ widget # <<>>
  /\ widget[1].lastSend = "busy"
  /\ widget[1].sendPc = "streaming"
  /\ widget[1].sends = 1
  /\ Len(widget[1].apiLog) = 1
  /\ Len(UserMessages(widget[1].messages)) = 1

\* ------------------------------------------------------------------------
\* C26
\* ------------------------------------------------------------------------

\* the request is answered or fails, and the stream completes or fails
SpecWidgetFair ==
  /\ SpecWidget
  /\ WF_vars(RequestFails \/ RequestSucceeds)
  /\ WF_vars(StreamCompletes \/ StreamFails)

\* the widget is idle and what it holds is what the storage holds
IdleAndSaved ==
  /\ ~widget[1].isTyping
  /\ ~widget[1].inputDisabled
  /\ ~widget[1].typingShown
  /\ widget[1].sendPc = "idle"
  /\ widget[1].config.enablePersistence => widget[1].storage = <<Stored(widget[1].messages)>>

ShownFollowsSources ==
  PlainPieces => contentHtml \in ImagesOfAll(itemSources, pieces)

\* ------------------------------------------------------------------------
\* C28
\* ------------------------------------------------------------------------

\* s ends with t
EndsWith(s, t) ==
  Len(s) >= Len(t) /\ SubSeq(s, Len(s) - Len(t) + 1, Len(s)) = t

\* C28: when the source has ended without a done or error event and the
\* last line, not ended by a newline, is an assistant_write data line with
\* a payload that is no JSON, the payload is the end of the result's
\* content.
PendingLineProcessed ==
  LET ls == StreamLines
      n == Len(ls)
  IN (/\ pc = "returned"
      /\ pos = Len(stream)
      /\ \A m \in 1..CompleteLines : ~IsTerminalLine(ls, m)
      /\ IsDataLineOf(ls, n, AssistantWriteEvent)
      /\ ~JSONParse(PayloadOf(Trim(ls[n]))).ok)
       => EndsWith(result[1].content, PayloadOf(Trim(ls[n])))

\* ------------------------------------------------------------------------
\* C29
\* ------------------------------------------------------------------------

\* an assistant message that is neither the welcome nor an error message
IsReply(m) == m.role = "assistant" /\ ~m.isWelcome /\ ~m.isError

\* in ms no error message comes right after an assistant reply
ErrorFollowsNoReply(ms) ==
  \A i \in 2..Len(ms) : ms[i].isError => ~IsReply(ms[i - 1])

\* C29: after a failed request or stream the history, in memory and stored,
\* holds the error message right after what was there before the placeholder
\* was pushed, and no request sent later carries a placeholder before the
\* error message.
NoPlaceholderAfterFailure ==
  LET w == widget[1] IN
    (widget # <<>> /\ w.sendPc = "idle") =>
      /\ ErrorFollowsNoReply(w.messages)
      /\ w.storage # <<>> => ErrorFollowsNoReply(w.storage[1])
      /\ \A k \in DOMAIN w.apiLog : \A i \in 2..Len(w.apiLog[k]) :
           w.apiLog[k][i].content = ErrorText => w.apiLog[k][i - 1].role = "user"

\* ------------------------------------------------------------------------
\* C30
\* ------------------------------------------------------------------------

\* every message of ms belongs to the conversation begun by the last clear
AllOfConversation(ms, n) == \A i \in DOMAIN ms : ms[i].epoch = n

\* C30: once no send is in flight, the history in memory and the stored
\* history hold messages of the current conversation only, and every
\* assistant reply comes right after a user message.
ClearedStaysCleared ==
  LET w == widget[1] IN
    (widget # <<>> /\ w.sendPc = "idle") =>
      /\ AllOfConversation(w.messages, w.cleared)
      /\ w.storage # <<>> => AllOfConversation(w.storage[1], w.cleared)
      /\ \A i \in DOMAIN w.messages :
           (IsReply(w.messages[i]) /\ ~(i > 1 /\ w.messages[i - 1].isError))
             => i > 1 /\ w.messages[i - 1].role = "user"

====
